---- MODULE Spec2Model ----
\* A model of prototool's command runner (internal/exec/runner.go) and of the
\* command plumbing that builds it (internal/cmd/templates.go).
\*
\* One CLI process is: getRunner (flags -> runner), one runner method (the
\* command), then the exit code taken from the returned error.  The file
\* system and the temporary clone directories outlive the process.
\*
\* Strings that the code inspects (paths, messages, printed lines) are
\* sequences of one-character strings, so that prefix tests, cleaning,
\* joining, comparison and formatting are computed as the code computes them.
EXTENDS Integers, Sequences, FiniteSets, TLC

\* ---------------------------------------------------------------- bounds

\* directory groups of one proto set (one protoc invocation each)
MaxGroups == 2
\* findings reported by one run of the breaking-change analyzer
MaxFindings == 2
\* seconds the longest walk of a directory tree takes
MaxWalk == 2
\* Downloads one caller begins
MaxCalls == 2

\* ---------------------------------------------------------------- strings

\* byte order of the characters used (Go compares strings bytewise)
CharOrd(c) ==
    CASE c = "," -> 44
      [] c = "." -> 46
      [] c = "/" -> 47
      [] c = "0" -> 48
      [] c = "1" -> 49
      [] c = "2" -> 50
      [] c = "3" -> 51
      [] c = ":" -> 58
      [] c = "a" -> 97
      [] c = "b" -> 98
      [] c = "c" -> 99
      [] c = "d" -> 100
      [] c = "f" -> 102
      [] c = "g" -> 103
      [] c = "s" -> 115
      [] c = "t" -> 116
      [] c = "w" -> 119
      [] c = "x" -> 120
      [] c = "{" -> 123
      [] c = "}" -> 125

\* Go's < on strings
RECURSIVE StrLess(_, _)
StrLess(a, b) ==
    IF b = <<>> THEN FALSE
    ELSE IF a = <<>> THEN TRUE
    ELSE IF a[1] = b[1] THEN StrLess(Tail(a), Tail(b))
    ELSE CharOrd(a[1]) < CharOrd(b[1])

\* strings.HasPrefix
HasPrefix(s, prefix) ==
    /\ Len(s) >= Len(prefix)
    /\ SubSeq(s, 1, Len(prefix)) = prefix

\* strings.Join(parts, sep)
RECURSIVE StrJoin(_, _)
StrJoin(parts, sep) ==
    IF parts = <<>> THEN <<>>
    ELSE IF Len(parts) = 1 THEN parts[1]
    ELSE parts[1] \o sep \o StrJoin(Tail(parts), sep)

\* strings.Split(s, sep) for a one-character separator
RECURSIVE StrSplit(_, _)
StrSplit(s, sep) ==
    IF \A i \in 1..Len(s) : s[i] # sep THEN <<s>>
    ELSE LET k == CHOOSE i \in 1..Len(s) :
                     s[i] = sep /\ \A j \in 1..(i - 1) : s[j] # sep
         IN <<SubSeq(s, 1, k - 1)>> \o StrSplit(SubSeq(s, k + 1, Len(s)), sep)

\* strconv.Itoa for the small numbers used as line and column
Itoa(n) ==
    CASE n = 0 -> <<"0">>
      [] n = 1 -> <<"1">>
      [] n = 2 -> <<"2">>
      [] n = 3 -> <<"3">>

\* ---------------------------------------------------------------- paths

\* the process's current directory; getRunner makes it the runner's workDirPath
Cwd == <<"/", "w">>

\* filepath.IsAbs (unix)
IsAbs(p) == Len(p) > 0 /\ p[1] = "/"

\* the lexical processing of filepath.Clean on the path elements: "" and "."
\* dropped, ".." removes the element before it (at the root it is dropped, at
\* the start of a relative path it is kept)
RECURSIVE CleanElems(_, _, _)
CleanElems(todo, done, rooted) ==
    IF todo = <<>> THEN done
    ELSE LET e == todo[1] IN
         IF e = <<>> \/ e = <<".">>
         THEN CleanElems(Tail(todo), done, rooted)
         ELSE IF e = <<".", ".">>
         THEN IF done # <<>> /\ done[Len(done)] # <<".", ".">>
              THEN CleanElems(Tail(todo), SubSeq(done, 1, Len(done) - 1), rooted)
              ELSE IF rooted
              THEN CleanElems(Tail(todo), done, rooted)
              ELSE CleanElems(Tail(todo), Append(done, e), rooted)
         ELSE CleanElems(Tail(todo), Append(done, e), rooted)

\* the end of filepath.Clean: the cleaned elements put back together
CleanResult(rooted, body) ==
    IF rooted THEN <<"/">> \o body
    ELSE IF body = <<>> THEN <<".">> ELSE body

\* filepath.Clean
Clean(p) ==
    IF p = <<>> THEN <<".">>
    ELSE CleanResult(IsAbs(p),
                     StrJoin(CleanElems(StrSplit(p, "/"), <<>>, IsAbs(p)), <<"/">>))

\* filepath.Join of two elements (empty elements are ignored)
Join(a, b) ==
    IF a = <<>> /\ b = <<>> THEN <<>>
    ELSE Clean(IF a = <<>> THEN b ELSE IF b = <<>> THEN a ELSE a \o <<"/">> \o b)

\* filepath.Dir: everything before the last separator, cleaned
Dir(p) ==
    LET seps == {i \in 1..Len(p) : p[i] = "/"} IN
    IF seps = {} THEN <<".">>
    ELSE LET k == CHOOSE i \in seps : \A j \in seps : j <= i
         IN Clean(SubSeq(p, 1, k))

\* filepath.Abs: relative paths are joined to the current directory
Abs(p) == IF IsAbs(p) THEN Clean(p) ELSE Join(Cwd, p)

\* file.AbsClean: "" stays "", anything else becomes absolute and clean
AbsClean(p) == IF p = <<>> THEN <<>> ELSE Abs(p)

\* ---------------------------------------------------------------- failures

\* paths used as targets and as filenames of diagnostics
PathDot   == <<".">>
PathS     == <<"s">>
PathF     == <<"f">>
PathDotF  == <<".", "/", "f">>
PathAbsF  == <<"/", "w", "/", "f">>
PathSG    == <<"s", "/", "g">>
PathUp    == <<".", ".">>
PathUpW2  == <<".", ".", "/", "w", "2">>
PathAbsS  == <<"/", "w", "/", "s">>
PathDev   == <<"d">>
PathGone  == <<"x">>

\* text.Failure: one diagnostic.  protoc diagnostics and breaking findings
\* carry no lint id.
Failure(fn, ln, col, msg) ==
    [Filename |-> fn, Line |-> ln, Column |-> col, LintID |-> <<>>, Message |-> msg]

FailureA == Failure(PathF, 2, 1, <<"a">>)
FailureB == Failure(PathAbsF, 1, 1, <<"b">>)
FailureC == Failure(PathSG, 1, 1, <<"a">>)

\* the diagnostics the external compiler may report
FailurePool == {FailureA, FailureB, FailureC}

\* the order of text.SortFailures: filename, line, column, message
FailureLess(a, b) ==
    IF a.Filename # b.Filename THEN StrLess(a.Filename, b.Filename)
    ELSE IF a.Line # b.Line THEN a.Line < b.Line
    ELSE IF a.Column # b.Column THEN a.Column < b.Column
    ELSE StrLess(a.Message, b.Message)

\* one step of a stable insertion sort: x goes after everything not greater
RECURSIVE InsertFailure(_, _)
InsertFailure(x, sorted) ==
    IF sorted = <<>> THEN <<x>>
    ELSE IF FailureLess(x, sorted[1]) THEN <<x>> \o sorted
    ELSE <<sorted[1]>> \o InsertFailure(x, Tail(sorted))

\* text.SortFailures (sort.Stable)
RECURSIVE SortFailures(_)
SortFailures(failures) ==
    IF failures = <<>> THEN <<>>
    ELSE InsertFailure(failures[Len(failures)],
                       SortFailures(SubSeq(failures, 1, Len(failures) - 1)))

\* the field names an error format may hold
FailureFields == {"filename", "line", "column", "id", "message"}

\* text.DefaultFailureFields, used for the empty format
DefaultFailureFields == <<"filename", "line", "column", "message">>

\* the loop of text.ParseColonSeparatedFailureFields over the parts of the
\* format: an unknown field is an error
ParseFailureFields(parts) ==
    IF \E i \in 1..Len(parts) :
           Len(parts[i]) # 1 \/ parts[i][1] \notin FailureFields
    THEN [err |-> "parse-format", fields |-> <<>>]
    ELSE [err |-> "nil", fields |-> [i \in 1..Len(parts) |-> parts[i][1]]]

\* text.ParseColonSeparatedFailureFields.  A format is a sequence of words
\* and ":" separators; the result is [err, fields].
ParseColonSeparatedFailureFields(format) ==
    IF format = <<>> THEN [err |-> "nil", fields |-> DefaultFailureFields]
    ELSE ParseFailureFields(StrSplit(format, ":"))

\* the text of one field of a failure
FieldText(f, field) ==
    CASE field = "filename" -> f.Filename
      [] field = "line"     -> Itoa(f.Line)
      [] field = "column"   -> Itoa(f.Column)
      [] field = "id"       -> f.LintID
      [] field = "message"  -> f.Message

\* Failure.Fprintln: the fields of the format, colon-separated, on one line
FailureLine(f, fields) ==
    StrJoin([i \in 1..Len(fields) |-> FieldText(f, fields[i])], <<":">>)

\* json.Marshal(failure): one object per line, empty id omitted
FailureJSON(f) ==
    <<"{">> \o f.Filename \o <<",">> \o Itoa(f.Line) \o <<",">> \o Itoa(f.Column)
        \o (IF f.LintID = <<>> THEN <<>> ELSE <<",">> \o f.LintID)
        \o <<",">> \o f.Message \o <<"}">>

\* ---------------------------------------------------------------- file system

\* the temporary directory git.TemporaryClone creates
CloneDir == <<"/", "t">>

\* the absolute paths of the modelled file system
FsPaths ==
    { <<"/">>, Cwd, <<"/", "w", "/", "s">>, PathAbsF, <<"/", "w", "/", "d">>,
      <<"/", "w", "2">>, CloneDir, <<"/", "t", "/", "s">>, <<"/", "t", "/", "f">> }

\* the tree before any command: the work directory /w with a directory s, a
\* regular file f and a device d; a sibling directory /w2; no clone
InitialFs ==
    [p \in FsPaths |->
        IF p \in {<<"/">>, Cwd, <<"/", "w", "/", "s">>, <<"/", "w", "2">>} THEN "dir"
        ELSE IF p = PathAbsF THEN "file"
        ELSE IF p = <<"/", "w", "/", "d">> THEN "other"
        ELSE "none"]

\* the kind of the file at an absolute path, "none" when there is none
KindAt(fsx, abs) == IF abs \in DOMAIN fsx THEN fsx[abs] ELSE "none"

\* os.Stat: the kind of the file a path names
Stat(fsx, p) == IF p = <<>> THEN "none" ELSE KindAt(fsx, Abs(p))

\* is p the directory d or below it
Under(p, d) == p = d \/ HasPrefix(p, d \o <<"/">>)

\* git.TemporaryClone, when it succeeds: a fresh directory holding the tree
\* of the git reference, which has the work tree's s and f or lacks them
TemporaryClone(fsx, sameTree) ==
    [p \in DOMAIN fsx |->
        IF p = CloneDir THEN "dir"
        ELSE IF Under(p, CloneDir)
        THEN (IF sameTree THEN fsx[Join(Cwd, SubSeq(p, Len(CloneDir) + 2, Len(p)))]
              ELSE "none")
        ELSE fsx[p]]

\* os.RemoveAll
RemoveAll(fsx, d) ==
    [p \in DOMAIN fsx |-> IF Under(p, d) THEN "none" ELSE fsx[p]]

\* ---------------------------------------------------------------- events

\* what a command did to its collaborators, in order
Event(name, path) == [e |-> name, p |-> path]

\* the events named `name` in a sequence of events
EventsNamed(evs, name) == {i \in 1..Len(evs) : evs[i].e = name}

\* ---------------------------------------------------------------- runner

\* the error formats a command line may give: none, the format of the tests,
\* and one with an unknown field
ErrorFormats ==
    { <<>>,
      <<"filename", ":", "line", ":", "column", ":", "id", ":", "message">>,
      <<"severity">> }

\* the options getRunner hands to NewRunner (RunnerWithCachePath, ...); an
\* option that is not given leaves the zero value of its field
RunnerOptions(cachePath, errorFormat, json, protocBinPath, protocWKTPath, walkTimeout) ==
    [cachePath |-> cachePath, errorFormat |-> errorFormat, json |-> json,
     protocBinPath |-> protocBinPath, protocWKTPath |-> protocWKTPath,
     walkTimeout |-> walkTimeout, configData |-> <<>>, protocURL |-> <<>>,
     develMode |-> FALSE]

NoOptions == RunnerOptions(<<>>, <<>>, FALSE, <<>>, <<>>, 0)

\* newRunner: the options are applied, then the proto set provider is built
\* with the walk timeout of the runner; outputOK tells whether the output
\* stream it is given accepts writes
newRunner(workDirPath, outputOK, options) ==
    [workDirPath |-> workDirPath, outputOK |-> outputOK,
     errorFormat |-> options.errorFormat, json |-> options.json,
     cachePath |-> options.cachePath, protocBinPath |-> options.protocBinPath,
     protocWKTPath |-> options.protocWKTPath, walkTimeout |-> options.walkTimeout,
     configData |-> options.configData, protocURL |-> options.protocURL,
     develMode |-> options.develMode,
     protoSetProvider |-> [walkTimeout |-> options.walkTimeout,
                           configData |-> options.configData,
                           develMode |-> options.develMode]]

\* a clone that forgets the error format
cloneForWorkDirPath_noErrorFormat(rr, workDirPath) ==
    [protoSetProvider |-> rr.protoSetProvider, workDirPath |-> workDirPath,
     outputOK |-> rr.outputOK, cachePath |-> rr.cachePath,
     configData |-> rr.configData, protocBinPath |-> rr.protocBinPath,
     protocWKTPath |-> rr.protocWKTPath, protocURL |-> rr.protocURL,
     errorFormat |-> <<>>, json |-> rr.json,
     develMode |-> FALSE, walkTimeout |-> 0]

\* runner.cloneForWorkDirPath: a new runner that is given the provider, the
\* output, the cache path, the config data, the protoc paths and URL, the
\* error format and the json option of the receiver; its develMode and
\* walkTimeout fields are not set and keep their zero values
cloneForWorkDirPath(rr, workDirPath) ==
    [protoSetProvider |-> rr.protoSetProvider, workDirPath |-> workDirPath,
     outputOK |-> rr.outputOK, cachePath |-> rr.cachePath,
     configData |-> rr.configData, protocBinPath |-> rr.protocBinPath,
     protocWKTPath |-> rr.protocWKTPath, protocURL |-> rr.protocURL,
     errorFormat |-> rr.errorFormat, json |-> rr.json,
     develMode |-> FALSE, walkTimeout |-> 0]

\* the value of an absent runner (no process is running)
NoRunner == newRunner(<<>>, TRUE, NoOptions)

\* file.ProtoSet: the resolved directory groups of a target
ProtoSet(workDirPath, dirPath, groups) ==
    [WorkDirPath |-> workDirPath, DirPath |-> dirPath, Groups |-> groups]

NoProtoSet == ProtoSet(<<>>, <<>>, 0)

\* exec.meta; isNil marks the nil *meta some callers pass
Meta(protoSet, singleFilename) ==
    [isNil |-> FALSE, ProtoSet |-> protoSet, SingleFilename |-> singleFilename]

NilMeta == [isNil |-> TRUE, ProtoSet |-> NoProtoSet, SingleFilename |-> <<>>]

\* a walk of the directory tree under a target: the seconds it takes, and
\* what it finds when it is left to finish (an error, or n groups)
Walk(took, ok, n) == [took |-> took, ok |-> ok, n |-> n]

\* the walks told apart: without a bound on the walk its length is not
WalkTimes(walkTimeout) == IF walkTimeout = 0 THEN {1} ELSE 1..MaxWalk

Walks(walkTimeout) ==
    {Walk(x[1], x[2].ok, x[2].n) :
        x \in WalkTimes(walkTimeout)
                \X ({[ok |-> FALSE, n |-> 0]}
                       \cup {[ok |-> TRUE, n |-> k] : k \in 1..MaxGroups})}

\* ProtoSetProvider.GetForDir: a walk longer than the walk timeout ends with
\* a timeout error and no proto set; a walk timeout of zero does not bound
\* the walk
GetForDir(walkTimeout, walk) ==
    IF walkTimeout > 0 /\ walk.took > walkTimeout
    THEN [ok |-> FALSE, n |-> 0, err |-> "timeout", took |-> walk.took]
    ELSE IF walk.ok
    THEN [ok |-> TRUE, n |-> walk.n, err |-> "nil", took |-> walk.took]
    ELSE [ok |-> FALSE, n |-> 0, err |-> "provider", took |-> walk.took]

\* what the proto set provider of a runner answers: an error, or a number
\* of groups
ProviderResults(walkTimeout) ==
    {GetForDir(walkTimeout, walk) : walk \in Walks(walkTimeout)}

\* the answer of a provider that is never asked
NoProviderResult == GetForDir(0, Walk(1, FALSE, 0))

\* the target of a command: its one argument, "." without one
fileOrDirOf(args) == IF Len(args) = 1 THEN args[1] ELSE PathDot

\* getMeta once the proto set provider was asked for directory dir, had it
\* gone on with what the provider held when it returned an error
getMetaForDir_ignoreError(rr, fileOrDir, dir, single, prov) ==
    [err |-> "nil",
     meta |-> Meta(ProtoSet(rr.workDirPath, dir, prov.n), single),
     events |-> <<Event("Stat", fileOrDir), Event("GetForDir", dir)>>]

\* getMeta once the proto set provider was asked for directory dir
getMetaForDir(rr, fileOrDir, dir, single, prov) ==
    IF prov.ok
    THEN [err |-> "nil",
          meta |-> Meta(ProtoSet(rr.workDirPath, dir, prov.n), single),
          events |-> <<Event("Stat", fileOrDir), Event("GetForDir", dir)>>]
    ELSE [err |-> prov.err, meta |-> Meta(NoProtoSet, <<>>),
          events |-> <<Event("Stat", fileOrDir), Event("GetForDir", dir)>>]

\* getMeta once os.Stat answered, had it taken everything that is not a
\* directory for a regular file
getMetaForKind_anyFile(rr, fileOrDir, kind, prov) ==
    IF kind = "dir"
    THEN getMetaForDir(rr, fileOrDir, fileOrDir, <<>>, prov)
    ELSE getMetaForDir(rr, fileOrDir, Dir(fileOrDir), fileOrDir, prov)

\* getMeta once os.Stat answered with the kind of the target
getMetaForKind(rr, fileOrDir, kind, prov) ==
    IF kind = "none"
    THEN [err |-> "not-found", meta |-> Meta(NoProtoSet, <<>>),
          events |-> <<Event("Stat", fileOrDir)>>]
    ELSE IF kind = "dir"
    THEN getMetaForDir(rr, fileOrDir, fileOrDir, <<>>, prov)
    ELSE IF kind = "file"
    THEN getMetaForDir(rr, fileOrDir, Dir(fileOrDir), fileOrDir, prov)
    ELSE [err |-> "invalid-target", meta |-> Meta(NoProtoSet, <<>>),
          events |-> <<Event("Stat", fileOrDir)>>]

\* runner.getMeta: [err, meta, events]
getMeta(rr, fsx, args, prov) ==
    getMetaForKind(rr, fileOrDirOf(args), Stat(fsx, fileOrDirOf(args)), prov)

\* runner.newCompiler: [err, compiler]
newCompiler(doGen, doFileDescriptorSet, doFileDescriptorSetFullControl, includeImports, includeSourceInfo) ==
    [err |-> IF doFileDescriptorSet /\ doFileDescriptorSetFullControl
             THEN "bad-options"
             ELSE IF ~doFileDescriptorSetFullControl
                     /\ (includeImports \/ includeSourceInfo)
             THEN "bad-options"
             ELSE "nil",
     compiler |-> [doGen |-> doGen,
                   doFileDescriptorSet |-> doFileDescriptorSet,
                   doFileDescriptorSetFullControl |-> doFileDescriptorSetFullControl,
                   includeImports |-> includeImports,
                   includeSourceInfo |-> includeSourceInfo]]

\* ---------------------------------------------------------------- compiler

\* what one protoc invocation (one directory group) ends with: a hard error,
\* or its diagnostics.  A group reporting several diagnostics looks to the
\* runner like several groups reporting one each, so one per group is enough.
GroupOutcomes ==
    {[err |-> TRUE, failures |-> <<>>], [err |-> FALSE, failures |-> <<>>]}
        \cup {[err |-> FALSE, failures |-> <<f>>] : f \in FailurePool}

\* the outcomes of the n groups of a proto set, in the order they finished
RunsOf(n) == [1..n -> GroupOutcomes]

\* the command lines the compiler may plan for a group
CommandPool == {<<>>, <<"c">>, <<"d">>}

\* what ProtocCommands answers for n groups: an error, or one line per group
CommandsOf(n) ==
    {[err |-> TRUE, commands |-> <<>>]}
        \cup {[err |-> FALSE, commands |-> c] : c \in [1..n -> CommandPool]}

RECURSIVE ConcatFailures(_)
ConcatFailures(runs) ==
    IF runs = <<>> THEN <<>>
    ELSE runs[1].failures \o ConcatFailures(Tail(runs))

\* the calls of one Compile: the call itself, then one protoc run per group
CompileEvents(protoSet, runs) ==
    <<Event("Compile", protoSet.DirPath)>>
        \o [i \in 1..Len(runs) |-> Event("protoc", Itoa(i))]

\* the result of Compile once every group has run and reported
CompileResult(compiler, runs, failures, evs) ==
    IF \E i \in 1..Len(runs) : runs[i].err
    THEN [err |-> "compile-error", Failures |-> <<>>,
          FileDescriptorSets |-> <<>>, events |-> evs]
    ELSE [err |-> "nil", Failures |-> failures,
          FileDescriptorSets |->
              IF failures = <<>>
                 /\ (compiler.doFileDescriptorSet
                        \/ compiler.doFileDescriptorSetFullControl)
              THEN [i \in 1..Len(runs) |-> i] ELSE <<>>,
          events |-> evs]

\* protoc.Compiler.Compile: every group is run, none is skipped because
\* another one failed; a hard error of any group is the error of the whole;
\* descriptor sets (one per group) are read only when there is no diagnostic.
\* The order of the collected failures is the order the groups finished in.
CompilerCompile(compiler, protoSet, runs) ==
    CompileResult(compiler, runs, ConcatFailures(runs), CompileEvents(protoSet, runs))

\* protoc.Compiler.ProtocCommands: plans the invocations, runs nothing
CompilerProtocCommands(compiler, protoSet, cmds) ==
    [err |-> IF cmds.err THEN "commands-error" ELSE "nil",
     commands |-> IF cmds.err THEN <<>> ELSE cmds.commands,
     events |-> <<Event("ProtocCommands", protoSet.DirPath)>>]

\* ---------------------------------------------------------------- printing

\* runner.println: [err, out]; the empty string is not printed
println(out, s, writeOK) ==
    IF s = <<>> THEN [err |-> "nil", out |-> out]
    ELSE IF writeOK THEN [err |-> "nil", out |-> Append(out, s)]
    ELSE [err |-> "write", out |-> out]

\* the filter, had it compared the names as given only
shouldPrint_exactName(meta, failure) ==
    meta.isNil \/ meta.SingleFilename = <<>> \/ meta.SingleFilename = failure.Filename

\* the filter of printFailuresForErrorFormat: is this failure printed
shouldPrint(meta, failure) ==
    IF ~meta.isNil
    THEN IF meta.SingleFilename = <<>> \/ meta.SingleFilename = failure.Filename
         THEN TRUE
         ELSE AbsClean(meta.SingleFilename) = AbsClean(failure.Filename)
    ELSE TRUE

\* the line printed for a failure
printedLine(rr, failure, failureFields) ==
    IF rr.json THEN FailureJSON(failure) ELSE FailureLine(failure, failureFields)

\* the loop of printFailuresForErrorFormat over the sorted failures: the
\* lines written to the buffered writer
RECURSIVE printLoop(_, _, _, _)
printLoop(rr, meta, failures, failureFields) ==
    IF failures = <<>> THEN <<>>
    ELSE (IF shouldPrint(meta, failures[1])
          THEN <<printedLine(rr, failures[1], failureFields)>> ELSE <<>>)
             \o printLoop(rr, meta, Tail(failures), failureFields)

\* the first loop of printFailuresForErrorFormat: a given filename replaces
\* the filename of every failure
renameFailures(failures, filename) ==
    [i \in 1..Len(failures) |->
        IF filename # <<>> THEN [failures[i] EXCEPT !.Filename = filename]
        ELSE failures[i]]

\* the end of printFailuresForErrorFormat: the buffered lines are flushed
\* to the output (an empty buffer writes nothing)
flushFailures(buffered, writeOK) ==
    IF buffered = <<>> THEN [err |-> "nil", out |-> <<>>]
    ELSE IF writeOK THEN [err |-> "nil", out |-> buffered]
    ELSE [err |-> "write", out |-> <<>>]

\* the failures in the order printFailuresForErrorFormat prints them,
\* had it not sorted them
orderFailures_unsorted(failures) == failures

\* the failures in the order printFailuresForErrorFormat prints them
orderFailures(failures) == SortFailures(failures)

\* printFailuresForErrorFormat, had it parsed the error format only when
\* there is a failure to print
printParsedFailures_lazy(rr, parsed, meta, failures, writeOK) ==
    IF failures = <<>> THEN [err |-> "nil", out |-> <<>>]
    ELSE IF parsed.err # "nil" THEN [err |-> parsed.err, out |-> <<>>]
    ELSE flushFailures(printLoop(rr, meta, orderFailures(failures), parsed.fields),
                       writeOK)

\* printFailuresForErrorFormat once the error format is parsed
printParsedFailures(rr, parsed, meta, failures, writeOK) ==
    IF parsed.err # "nil" THEN [err |-> parsed.err, out |-> <<>>]
    ELSE flushFailures(printLoop(rr, meta, orderFailures(failures), parsed.fields),
                       writeOK)

\* runner.printFailuresForErrorFormat: [err, out]
printFailuresForErrorFormat(rr, errorFormat, filename, meta, failures, writeOK) ==
    printParsedFailures(rr, ParseColonSeparatedFailureFields(errorFormat), meta,
                        renameFailures(failures, filename), writeOK)

\* runner.printFailures
printFailures(rr, filename, meta, failures, writeOK) ==
    printFailuresForErrorFormat(rr, rr.errorFormat, filename, meta, failures, writeOK)

\* ---------------------------------------------------------------- compiling

\* the options of a compiler, as text for the event log: g(en),
\* s (descriptor set), c (full control), a (imports), b (source info)
OptionsText(compiler) ==
    (IF compiler.doGen THEN <<"g">> ELSE <<>>)
        \o (IF compiler.doFileDescriptorSet THEN <<"s">> ELSE <<>>)
        \o (IF compiler.doFileDescriptorSetFullControl THEN <<"c">> ELSE <<>>)
        \o (IF compiler.includeImports THEN <<"a">> ELSE <<>>)
        \o (IF compiler.includeSourceInfo THEN <<"b">> ELSE <<>>)

\* what the file system answers to the file DescriptorSet writes: whether
\* the file can be created, written and closed
FileIO(createOK, writeOK, closeOK) ==
    [createOK |-> createOK, writeOK |-> writeOK, closeOK |-> closeOK]

FileOK == FileIO(TRUE, TRUE, TRUE)

\* what the collaborators of one resolve-and-compile answer: the provider,
\* the protoc runs, the planned command lines, the package set builder
Env(prov, runs, cmds, pkgOK) ==
    [prov |-> prov, runs |-> runs, cmds |-> cmds, pkgOK |-> pkgOK, io |-> FileOK]

NoCommands == [err |-> FALSE, commands |-> <<>>]

\* the environment of a step that is never reached
NoEnv == Env(NoProviderResult, <<>>, NoCommands, TRUE)

\* the return of doCompile, had it returned the descriptor sets whatever
\* the failures
doCompileReturn_ignoreFailures(cr, pf) ==
    IF pf.err # "nil"
    THEN [err |-> pf.err, fds |-> <<>>, out |-> pf.out, events |-> cr.events]
    ELSE [err |-> "nil", fds |-> cr.FileDescriptorSets, out |-> pf.out,
          events |-> cr.events]

\* the return of doCompile once the failures are printed
doCompileReturn(cr, pf) ==
    IF pf.err # "nil"
    THEN [err |-> pf.err, fds |-> <<>>, out |-> pf.out, events |-> cr.events]
    ELSE IF Len(cr.Failures) > 0
    THEN [err |-> "exit255", fds |-> <<>>, out |-> pf.out, events |-> cr.events]
    ELSE [err |-> "nil", fds |-> cr.FileDescriptorSets, out |-> pf.out,
          events |-> cr.events]

\* the failures doCompile hands to printFailures, had it stopped at the first
failuresToPrint_firstOnly(cr) ==
    IF cr.Failures = <<>> THEN <<>> ELSE <<cr.Failures[1]>>

\* the failures doCompile hands to printFailures: all of the compile result
failuresToPrint(cr) == cr.Failures

\* doCompile once compiler.Compile has returned
doCompilePrint(rr, meta, cr, writeOK) ==
    IF cr.err # "nil"
    THEN [err |-> cr.err, fds |-> <<>>, out |-> <<>>, events |-> cr.events]
    ELSE doCompileReturn(cr, printFailures(rr, <<>>, meta, failuresToPrint(cr), writeOK))

\* runner.doCompile: [err, fds, out, events]
doCompile(rr, compiler, meta, runs, writeOK) ==
    doCompilePrint(rr, meta, CompilerCompile(compiler, meta.ProtoSet, runs), writeOK)

\* the loop of doProtocCommands: print each line, stop at the first error
RECURSIVE printlnAll(_, _, _)
printlnAll(out, lines, writeOK) ==
    IF lines = <<>> THEN [err |-> "nil", out |-> out]
    ELSE IF lines[1] # <<>> /\ ~writeOK THEN println(out, lines[1], writeOK)
    ELSE printlnAll(println(out, lines[1], writeOK).out, Tail(lines), writeOK)

\* the return of doProtocCommands once the lines are printed
doProtocCommandsReturn(pc, pr) ==
    [err |-> pr.err, fds |-> <<>>, out |-> pr.out, events |-> pc.events]

\* doProtocCommands once compiler.ProtocCommands has returned
doProtocCommandsPrint(pc, writeOK) ==
    IF pc.err # "nil"
    THEN [err |-> pc.err, fds |-> <<>>, out |-> <<>>, events |-> pc.events]
    ELSE doProtocCommandsReturn(pc, printlnAll(<<>>, pc.commands, writeOK))

\* runner.doProtocCommands: [err, fds, out, events]
doProtocCommands(rr, compiler, meta, cmds, writeOK) ==
    doProtocCommandsPrint(CompilerProtocCommands(compiler, meta.ProtoSet, cmds), writeOK)

\* a result with events put before its own
after(evs, res) == [res EXCEPT !.events = evs \o @]

\* the dry run of compile, had it run the compiler as well
dryRunOrCompile_both(rr, compiler, dryRun, meta, env, writeOK) ==
    IF dryRun
    THEN after(doCompile(rr, compiler, meta,
                         [i \in 1..meta.ProtoSet.Groups |->
                             [err |-> FALSE, failures |-> <<>>]],
                         writeOK).events,
               doProtocCommands(rr, compiler, meta, env.cmds, writeOK))
    ELSE doCompile(rr, compiler, meta, env.runs, writeOK)

\* the end of compile: print the commands on a dry run, compile otherwise
dryRunOrCompile(rr, compiler, dryRun, meta, env, writeOK) ==
    IF dryRun THEN doProtocCommands(rr, compiler, meta, env.cmds, writeOK)
    ELSE doCompile(rr, compiler, meta, env.runs, writeOK)

\* compile once newCompiler has returned
compileWith(rr, nc, dryRun, meta, env, writeOK) ==
    IF nc.err # "nil"
    THEN [err |-> nc.err, fds |-> <<>>, out |-> <<>>, events |-> <<>>]
    ELSE after(<<Event("newCompiler", OptionsText(nc.compiler))>>,
               dryRunOrCompile(rr, nc.compiler, dryRun, meta, env, writeOK))

\* the descriptor-set option compile asks of newCompiler
descriptorSetOption(doFileDescriptorSet, dryRun) ==
    IF dryRun THEN FALSE ELSE doFileDescriptorSet

\* runner.compile: [err, fds, out, events]
compile(rr, doGen, doFileDescriptorSet, dryRun, meta, env, writeOK) ==
    compileWith(rr,
                newCompiler(doGen, descriptorSetOption(doFileDescriptorSet, dryRun),
                            FALSE, FALSE, FALSE),
                dryRun, meta, env, writeOK)

\* a command's result from the result of compile: the error it returns,
\* what it printed, what it called, and the descriptor sets compile gave it
commandResult(c) ==
    [err |-> c.err, out |-> c.out, events |-> c.events, fds |-> c.fds]

\* Compile, Gen and All once getMeta has returned
compileMeta(rr, m, doGen, dryRun, env, writeOK) ==
    IF m.err # "nil"
    THEN [err |-> m.err, out |-> <<>>, events |-> m.events, fds |-> <<>>]
    ELSE after(m.events,
               commandResult(compile(rr, doGen, FALSE, dryRun, m.meta, env, writeOK)))

\* runner.Compile
Compile(rr, fsx, args, dryRun, env, writeOK) ==
    compileMeta(rr, getMeta(rr, fsx, args, env.prov), FALSE, dryRun, env, writeOK)

\* runner.Gen
Gen(rr, fsx, args, dryRun, env, writeOK) ==
    compileMeta(rr, getMeta(rr, fsx, args, env.prov), TRUE, dryRun, env, writeOK)

\* runner.All
All(rr, fsx, args, env, writeOK) ==
    compileMeta(rr, getMeta(rr, fsx, args, env.prov), FALSE, FALSE, env, writeOK)

\* extract.PackageSet built from descriptor sets
PackageSet(fds) == [files |-> fds]

NoPackageSet == PackageSet(<<>>)

\* getPackageSetAndConfig once compile has returned
packageSetOf(m, c, pkgOK) ==
    [err |-> IF c.err # "nil" THEN c.err
             ELSE IF ~pkgOK THEN "package-set" ELSE "nil",
     packageSet |-> IF c.err = "nil" /\ pkgOK THEN PackageSet(c.fds) ELSE NoPackageSet,
     config |-> IF c.err = "nil" /\ pkgOK THEN m.meta.ProtoSet.DirPath ELSE <<>>,
     out |-> c.out,
     events |-> m.events \o c.events]

\* getPackageSetAndConfig once getMeta has returned
packageSetForMeta(rr, m, env, writeOK) ==
    IF m.err # "nil"
    THEN [err |-> m.err, packageSet |-> NoPackageSet, config |-> <<>>,
          out |-> <<>>, events |-> m.events]
    ELSE packageSetOf(m, compile(rr, FALSE, TRUE, FALSE, m.meta, env, writeOK),
                      env.pkgOK)

\* runner.getPackageSetAndConfig: [err, packageSet, config, out, events]
getPackageSetAndConfig(rr, fsx, args, env, writeOK) ==
    packageSetForMeta(rr, getMeta(rr, fsx, args, env.prov), env, writeOK)

\* the directory getPackageSetAndConfigForRelDirPath resolves
relDirTarget(workDirPath, relDirPath) ==
    IF relDirPath # <<>> /\ relDirPath # PathDot
    THEN Join(workDirPath, relDirPath)
    ELSE workDirPath

\* runner.getPackageSetAndConfigForRelDirPath
getPackageSetAndConfigForRelDirPath(rr, fsx, relDirPath, env, writeOK) ==
    getPackageSetAndConfig(rr, fsx, <<relDirTarget(rr.workDirPath, relDirPath)>>,
                           env, writeOK)

\* what the consumer of the descriptor sets (the package set builder, the
\* merge) may answer: it is asked only when the compile returns them
PkgAnswers(rr, fsx, args, pv, rs, needPkg) ==
    IF needPkg
       /\ getPackageSetAndConfig(rr, fsx, args, Env(pv, rs, NoCommands, FALSE), TRUE).err
             = "package-set"
    THEN BOOLEAN ELSE {TRUE}

\* the environments worth telling apart for one resolve-and-compile with the
\* provider answering pv: the answers of collaborators that are never asked
\* are left at their default
ResolveEnvsIf(rr, fsx, args, reached, pv, dryRun, needPkg) ==
    { Env(pv, x[1], x[2], x[3]) :
        x \in UNION { {rs} \X (IF reached /\ dryRun THEN CommandsOf(pv.n)
                               ELSE {NoCommands})
                           \X PkgAnswers(rr, fsx, args, pv, rs, needPkg)
                      : rs \in (IF reached /\ ~dryRun THEN RunsOf(pv.n) ELSE {<<>>}) } }

ResolveEnvs(rr, fsx, args, dryRun, needPkg) ==
    UNION { ResolveEnvsIf(rr, fsx, args, getMeta(rr, fsx, args, pv).err = "nil", pv,
                          dryRun, needPkg)
            : pv \in ProviderResults(rr.protoSetProvider.walkTimeout) }

\* compileFullControl, had it never asked for the imports
compileFullControl_noImports(rr, includeImports, includeSourceInfo, meta, env, writeOK) ==
    compileWith(rr, newCompiler(FALSE, FALSE, TRUE, FALSE, includeSourceInfo),
                FALSE, meta, env, writeOK)

\* compileFullControl, had it asked for the plain descriptor set as well
compileFullControl_both(rr, includeImports, includeSourceInfo, meta, env, writeOK) ==
    compileWith(rr, newCompiler(FALSE, TRUE, TRUE, includeImports, includeSourceInfo),
                FALSE, meta, env, writeOK)

\* runner.compileFullControl: [err, fds, out, events]
compileFullControl(rr, includeImports, includeSourceInfo, meta, env, writeOK) ==
    compileWith(rr, newCompiler(FALSE, FALSE, TRUE, includeImports, includeSourceInfo),
                FALSE, meta, env, writeOK)

\* the bytes DescriptorSet marshals from the merged descriptor sets
descriptorData(rr, fds) ==
    IF rr.json THEN <<"{">> \o Itoa(Len(fds)) \o <<"}">>
    ELSE <<"d">> \o Itoa(Len(fds))

\* the name of the file ioutil.TempFile creates
TmpFile == <<"/", "t", "0">>

\* multierr.Append of the error of the call and the error of file.Close
multierrAppend(err, closeErr) ==
    IF closeErr = "nil" THEN err
    ELSE IF err = "nil" THEN closeErr
    ELSE IF err = "file-write" THEN "file-write; close"
    ELSE "write; close"

\* the deferred function of DescriptorSet, had it run on success only
closeFile_onSuccess(res, name, closeOK) ==
    IF res.err = "nil"
    THEN [res EXCEPT !.events = Append(@, Event("Close", name)),
                     !.err = multierrAppend(@, IF closeOK THEN "nil" ELSE "close")]
    ELSE res

\* the deferred function of DescriptorSet: whatever the rest of the call
\* returned, the file is closed and the error of the close is appended
closeFile(res, name, closeOK) ==
    [res EXCEPT !.events = Append(@, Event("Close", name)),
                !.err = multierrAppend(@, IF closeOK THEN "nil" ELSE "close")]

\* DescriptorSet once the file is open: the data is written, and the name
\* of a temporary file is printed
descriptorSetFileWrite(sofar, name, tmp, data, io, writeOK) ==
    IF ~io.writeOK THEN [sofar EXCEPT !.err = "file-write"]
    ELSE [err |-> IF tmp THEN println(sofar.out, name, writeOK).err ELSE "nil",
          out |-> IF tmp THEN println(sofar.out, name, writeOK).out ELSE sofar.out,
          events |-> sofar.events \o <<Event("WriteFile", name), Event("FileData", data)>>,
          fds |-> sofar.fds]

\* DescriptorSet writing to a file: os.Create or ioutil.TempFile, then the
\* write with the deferred close
descriptorSetFile(sofar, open, name, tmp, data, io, writeOK) ==
    IF ~io.createOK
    THEN [sofar EXCEPT !.err = "create", !.events = Append(@, Event(open, name))]
    ELSE closeFile(descriptorSetFileWrite(
                       [sofar EXCEPT !.events = Append(@, Event(open, name))],
                       name, tmp, data, io, writeOK),
                   name, io.closeOK)

\* the end of DescriptorSet: the data goes to the output, or to a file
\* whose name is printed when it is a temporary one
descriptorSetWrite(rr, sofar, outputPath, tmp, data, io, writeOK) ==
    IF outputPath = <<>> /\ ~tmp
    THEN [err |-> IF writeOK THEN "nil" ELSE "write",
          out |-> IF writeOK THEN Append(sofar.out, data) ELSE sofar.out,
          events |-> sofar.events, fds |-> sofar.fds]
    ELSE IF outputPath # <<>>
    THEN descriptorSetFile(sofar, "Create", outputPath, tmp, data, io, writeOK)
    ELSE descriptorSetFile(sofar, "TempFile", TmpFile, tmp, data, io, writeOK)

\* DescriptorSet, had it written the descriptor sets whatever the merge
\* answered
descriptorSetMerge_ignoreError(rr, c, outputPath, tmp, mergeOK, io, writeOK) ==
    IF c.err # "nil" THEN c
    ELSE descriptorSetWrite(rr, c, outputPath, tmp, descriptorData(rr, c.fds), io, writeOK)

\* DescriptorSet once compileFullControl has returned
descriptorSetMerge(rr, c, outputPath, tmp, mergeOK, io, writeOK) ==
    IF c.err # "nil" THEN c
    ELSE IF ~mergeOK THEN [c EXCEPT !.err = "merge"]
    ELSE descriptorSetWrite(rr, c, outputPath, tmp, descriptorData(rr, c.fds), io, writeOK)

\* DescriptorSet once getMeta has returned
descriptorSetMeta(rr, m, includeImports, includeSourceInfo, outputPath, tmp, env, writeOK) ==
    IF m.err # "nil"
    THEN [err |-> m.err, out |-> <<>>, events |-> m.events, fds |-> <<>>]
    ELSE after(m.events,
               descriptorSetMerge(rr,
                   commandResult(compileFullControl(rr, includeImports,
                                                    includeSourceInfo, m.meta, env,
                                                    writeOK)),
                   outputPath, tmp, env.pkgOK, env.io, writeOK))

\* runner.DescriptorSet
DescriptorSet(rr, fsx, args, includeImports, includeSourceInfo, outputPath, tmp, env, writeOK) ==
    IF outputPath # <<>> /\ tmp
    THEN [err |-> "input255", out |-> <<>>, events |-> <<>>, fds |-> <<>>]
    ELSE descriptorSetMeta(rr, getMeta(rr, fsx, args, env.prov), includeImports,
                           includeSourceInfo, outputPath, tmp, env, writeOK)

\* BreakDescriptorSet, had it let an empty output path through
BreakDescriptorSet_anyPath(rr, fsx, args, outputPath, env, writeOK) ==
    DescriptorSet(rr, fsx, args, TRUE, FALSE, outputPath, FALSE, env, writeOK)

\* runner.BreakDescriptorSet: the descriptor set with its imports and without
\* source info, written to the output path, which must be given
BreakDescriptorSet(rr, fsx, args, outputPath, env, writeOK) ==
    IF outputPath = <<>>
    THEN [err |-> "input255", out |-> <<>>, events |-> <<>>, fds |-> <<>>]
    ELSE DescriptorSet(rr, fsx, args, TRUE, FALSE, outputPath, FALSE, env, writeOK)

\* the package names of a package set, sorted (extractSortPackageNames):
\* one package per descriptor set
packageNames(packageSet) ==
    [i \in 1..Len(packageSet.files) |-> <<"p">> \o Itoa(i)]

\* InspectPackages once the names are printed
inspectReturn(ps, pr) ==
    [err |-> pr.err, out |-> pr.out, events |-> ps.events, fds |-> ps.packageSet.files]

\* InspectPackages once getPackageSetAndConfig has returned
inspectPrint(ps, writeOK) ==
    IF ps.err # "nil"
    THEN [err |-> ps.err, out |-> ps.out, events |-> ps.events, fds |-> <<>>]
    ELSE inspectReturn(ps, printlnAll(ps.out, packageNames(ps.packageSet), writeOK))

\* runner.InspectPackages
InspectPackages(rr, fsx, args, env, writeOK) ==
    inspectPrint(getPackageSetAndConfig(rr, fsx, args, env, writeOK), writeOK)

\* ---------------------------------------------------------------- package graph

\* the names of the packages that the descriptor sets declare; the unnamed
\* default package has the empty name
PkgFoo == <<"f">>
PkgBar == <<"b">>
PkgBaz == <<"b", "a">>
PkgDefault == <<>>

\* descriptor.FileDescriptorProto: the name of a compiled file, the package
\* it declares, the names of the files it imports, the rest of its content
FileDescriptor(name, package, dependency, content) ==
    [name |-> name, package |-> package, dependency |-> dependency,
     content |-> content]

\* the elements of a sequence
Range(s) == {s[i] : i \in 1..Len(s)}

\* the least string of a set that is not empty
MinString(S) == CHOOSE x \in S : \A y \in S \ {x} : StrLess(x, y)

\* the greatest string of a set that is not empty
MaxString(S) == CHOOSE x \in S : \A y \in S \ {x} : StrLess(y, x)

\* sort.Strings of strings that are all different
RECURSIVE SortStrings(_)
SortStrings(S) ==
    IF S = {} THEN <<>>
    ELSE <<MinString(S)>> \o SortStrings(S \ {MinString(S)})

\* strings that are all different, the greatest first
RECURSIVE ReverseStrings(_)
ReverseStrings(S) ==
    IF S = {} THEN <<>>
    ELSE <<MaxString(S)>> \o ReverseStrings(S \ {MaxString(S)})

\* what a merge holds so far: the files by name, or the error
Merged(err, file) == [err |-> err, file |-> file]

\* the merge of one file, had the first file of a name won
mergeFile_firstWins(acc, f) ==
    IF \E g \in Range(acc.file) : g.name = f.name THEN acc
    ELSE Merged(acc.err, Append(acc.file, f))

\* the merge of one file: a file whose name is there already is dropped
\* when its content is the same, and is an error when it differs
mergeFile(acc, f) ==
    IF acc.err # "nil" THEN acc
    ELSE IF \E g \in Range(acc.file) : g.name = f.name /\ g # f
    THEN Merged("merge", <<>>)
    ELSE IF f \in Range(acc.file) THEN acc
    ELSE Merged("nil", Append(acc.file, f))

\* the merge of the files of one descriptor set, in order
RECURSIVE mergeFiles(_, _)
mergeFiles(acc, files) ==
    IF files = <<>> THEN acc
    ELSE mergeFiles(mergeFile(acc, files[1]), Tail(files))

\* the merge of descriptor sets, in order
RECURSIVE mergeSets(_, _)
mergeSets(acc, sets) ==
    IF sets = <<>> THEN acc
    ELSE mergeSets(mergeFiles(acc, sets[1]), Tail(sets))

\* the file of a name among files that hold it
fileNamed(files, name) == CHOOSE f \in Range(files) : f.name = name

\* merged files in the order of their names
sortFiles(m) ==
    Merged(m.err,
           [i \in 1..Len(m.file) |->
               fileNamed(m.file, SortStrings({f.name : f \in Range(m.file)})[i])])

\* desc.MergeFileDescriptorSets: [err, file], one descriptor set with the
\* files of all of them, each name once, sorted by name
MergeFileDescriptorSets(sets) == sortFiles(mergeSets(Merged("nil", <<>>), sets))

\* extract.Package: its name, the names of its files, of the packages it
\* depends on and of the packages that import it
Package(name, files, deps, importers) ==
    [name |-> name, files |-> files, deps |-> deps, importers |-> importers]

NoPackage == Package(<<>>, {}, {}, {})

\* the packages that files declare, without any edge yet
declaredPackages(files) ==
    [p \in {f.package : f \in Range(files)} |->
        Package(p, {f.name : f \in {g \in Range(files) : g.package = p}}, {}, {})]

\* the edge of an import, had an import within a package been one as well
addEdge_selfEdges(packages, p, q) ==
    [packages EXCEPT ![p].deps = @ \cup {q}, ![q].importers = @ \cup {p}]

\* the edge of an import of a file of the package q by a file of the
\* package p: none within one package
addEdge(packages, p, q) ==
    IF p = q THEN packages
    ELSE [[packages EXCEPT ![p].deps = @ \cup {q}] EXCEPT ![q].importers = @ \cup {p}]

\* one import of the file f: to the package of the imported file, when the
\* descriptor sets hold it
addImport(packages, files, f, name) ==
    IF \E g \in Range(files) : g.name = name
    THEN addEdge(packages, f.package, fileNamed(files, name).package)
    ELSE packages

\* the imports of the file f, in order
RECURSIVE addImports(_, _, _, _)
addImports(packages, files, f, names) ==
    IF names = <<>> THEN packages
    ELSE addImports(addImport(packages, files, f, names[1]), files, f, Tail(names))

\* the imports of the files from the i-th on
RECURSIVE addFiles(_, _, _)
addFiles(packages, files, i) ==
    IF i > Len(files) THEN packages
    ELSE addFiles(addImports(packages, files, files[i], files[i].dependency),
                  files, i + 1)

\* the package set of merged descriptor sets
packageSetOfMerged(m) ==
    IF m.err # "nil"
    THEN [err |-> "package-set", packages |-> declaredPackages(<<>>)]
    ELSE [err |-> "nil", packages |-> addFiles(declaredPackages(m.file), m.file, 1)]

\* reflect.NewPackageSet and extract.NewPackageSet: [err, packages]
NewPackageSet(sets) == packageSetOfMerged(MergeFileDescriptorSets(sets))

\* runner.getPackageSetForFileDescriptorSets
getPackageSetForFileDescriptorSets(sets) == NewPackageSet(sets)

\* PackageSet.PackageNameToPackage
PackageNameToPackage(packageSet) == packageSet.packages

\* Package.DependencyNameToDependency
DependencyNameToDependency(packageSet, pkg) ==
    [q \in pkg.deps |-> packageSet.packages[q]]

\* Package.ImporterNameToImporter
ImporterNameToImporter(packageSet, pkg) ==
    [q \in pkg.importers |-> packageSet.packages[q]]

\* the names, had they been left unsorted (the order of a map is any order)
extractSortPackageNames_unsorted(m) ==
    ReverseStrings({key \in DOMAIN m : key # <<>>})

\* extractSortPackageNames: the keys of the map but the empty one, sorted
extractSortPackageNames(m) ==
    SortStrings({key \in DOMAIN m : key # <<>>})

\* runner.printPackageNames: one line per name, up to the first error
printPackageNames(sofar, m, writeOK) ==
    printlnAll(sofar, extractSortPackageNames(m), writeOK)

\* the descriptor sets that protoc wrote for the groups of a compile give
\* the answer of the merge and of the package set builder
withDescriptorSets(env, ok) == [env EXCEPT !.pkgOK = ok]

\* what getPackage returns: [err, packageSet, pkg, out, events]
packageResult(err, packageSet, pkg, sofar, evs) ==
    [err |-> err, packageSet |-> packageSet, pkg |-> pkg, out |-> sofar,
     events |-> evs]

\* getPackage once getPackageSetAndConfig has returned
getPackageOf(ps, packageSet, name) ==
    IF ps.err # "nil"
    THEN packageResult(ps.err, packageSet, NoPackage, ps.out, ps.events)
    ELSE IF name \notin DOMAIN PackageNameToPackage(packageSet)
    THEN packageResult("package-not-found", packageSet, NoPackage, ps.out, ps.events)
    ELSE packageResult("nil", packageSet, PackageNameToPackage(packageSet)[name],
                       ps.out, ps.events)

\* runner.getPackage, the compile having written the descriptor sets descs
getPackage(rr, fsx, args, name, env, descs, writeOK) ==
    IF name = <<>>
    THEN packageResult("input255", NewPackageSet(<<>>), NoPackage, <<>>, <<>>)
    ELSE getPackageOf(getPackageSetAndConfig(rr, fsx, args,
                          withDescriptorSets(env,
                              getPackageSetForFileDescriptorSets(descs).err = "nil"),
                          writeOK),
                      getPackageSetForFileDescriptorSets(descs), name)

\* the end of a listing: the names of the map are printed
listReturn(sofar, pr, descs) ==
    [err |-> pr.err, out |-> pr.out, events |-> sofar.events, fds |-> descs]

\* a listing of the packages of a package, had it always listed the
\* packages that the package depends on
listPackagesOf_deps(g, importers, descs, writeOK) ==
    IF g.err # "nil"
    THEN [err |-> g.err, out |-> g.out, events |-> g.events, fds |-> <<>>]
    ELSE listReturn(g, printPackageNames(g.out,
                                          DependencyNameToDependency(g.packageSet, g.pkg),
                                          writeOK),
                    descs)

\* InspectPackageDeps and InspectPackageImporters once getPackage has
\* returned: the names of the dependencies, or of the importers
listPackagesOf(g, importers, descs, writeOK) ==
    IF g.err # "nil"
    THEN [err |-> g.err, out |-> g.out, events |-> g.events, fds |-> <<>>]
    ELSE listReturn(g, printPackageNames(g.out,
                         IF importers
                         THEN ImporterNameToImporter(g.packageSet, g.pkg)
                         ELSE DependencyNameToDependency(g.packageSet, g.pkg),
                         writeOK),
                    descs)

\* runner.InspectPackageDeps
InspectPackageDeps(rr, fsx, args, name, env, descs, writeOK) ==
    listPackagesOf(getPackage(rr, fsx, args, name, env, descs, writeOK), FALSE, descs,
                   writeOK)

\* runner.InspectPackageImporters
InspectPackageImporters(rr, fsx, args, name, env, descs, writeOK) ==
    listPackagesOf(getPackage(rr, fsx, args, name, env, descs, writeOK), TRUE, descs,
                   writeOK)

\* InspectPackages once getPackageSetAndConfig has returned, the compile
\* having written the descriptor sets descs
listAllPackages(ps, packageSet, descs, writeOK) ==
    IF ps.err # "nil"
    THEN [err |-> ps.err, out |-> ps.out, events |-> ps.events, fds |-> <<>>]
    ELSE listReturn(ps, printPackageNames(ps.out, PackageNameToPackage(packageSet),
                                          writeOK),
                    descs)

\* runner.InspectPackages, the compile having written the descriptor sets
\* descs
InspectPackagesOf(rr, fsx, args, env, descs, writeOK) ==
    listAllPackages(getPackageSetAndConfig(rr, fsx, args,
                        withDescriptorSets(env,
                            getPackageSetForFileDescriptorSets(descs).err = "nil"),
                        writeOK),
                    getPackageSetForFileDescriptorSets(descs), descs, writeOK)

\* runner.DescriptorSet, the compile having written the descriptor sets descs
DescriptorSetOf(rr, fsx, args, flags, env, descs, writeOK) ==
    DescriptorSet(rr, fsx, args, flags.includeImports, flags.includeSourceInfo,
                  flags.outputPath, flags.tmp,
                  withDescriptorSets(env, MergeFileDescriptorSets(descs).err = "nil"),
                  writeOK)

\* ---------------------------------------------------------------- break check

\* the sequences over S of length at most n
SeqsUpTo(S, n) == UNION {[1..k -> S] : k \in 0..n}

\* the findings the breaking runner may report
FindingPool == {FailureA, FailureB}

\* what the breaking runner answers: an error, or its findings
BreakResults ==
    {[err |-> TRUE, failures |-> <<>>]}
        \cup {[err |-> FALSE, failures |-> fs] : fs \in SeqsUpTo(FindingPool, MaxFindings)}

NoBreak == [err |-> FALSE, failures |-> <<>>]

\* what the collaborators of one BreakCheck answer: the compile of the
\* current tree, the read and the decoding of the descriptor set file, the
\* clone and the tree it holds, the compile of the clone, the comparison
BreakEnv(to, readOK, descPkgOK, cloneOK, sameTree, from, brk) ==
    [to |-> to, readOK |-> readOK, descPkgOK |-> descPkgOK, cloneOK |-> cloneOK,
     sameTree |-> sameTree, from |-> from, brk |-> brk]

\* the first check of BreakCheck, had it let both flags through
conflictingFlags_never(gitBranch, descriptorSetPath) == FALSE

\* the first check of BreakCheck: both kinds of reference are given
conflictingFlags(gitBranch, descriptorSetPath) ==
    gitBranch # <<>> /\ descriptorSetPath # <<>>

\* settings.DefaultConfigFilename
DefaultConfigFilename == <<"c">>

\* what cfginit.Generate writes for the flags: the file system keeps it as
\* the kind of the file, so that a rewritten file can be told from the
\* file it replaces
ConfigData(uncomment, document) ==
    IF uncomment
    THEN (IF document THEN "config-uncomment-document" ELSE "config-uncomment")
    ELSE (IF document THEN "config-document" ELSE "config")

\* the directory p and the directories above it
RECURSIVE Ancestors(_)
Ancestors(p) == IF p = <<"/">> THEN {p} ELSE {p} \cup Ancestors(Dir(p))

\* os.MkdirAll fails when the path or a path above it is not a directory
MkdirAllFails(fsx, p) ==
    \E q \in Ancestors(Abs(p)) : KindAt(fsx, q) \notin {"dir", "none"}

\* os.MkdirAll, when it succeeds: the directory and the missing directories
\* above it are there
MkdirAll(fsx, p) ==
    [q \in DOMAIN fsx \cup Ancestors(Abs(p)) |->
        IF q \in Ancestors(Abs(p)) THEN "dir" ELSE fsx[q]]

\* ioutil.WriteFile, when it succeeds
WriteFile(fsx, p, data) ==
    [q \in DOMAIN fsx \cup {Abs(p)} |-> IF q = Abs(p) THEN data ELSE fsx[q]]

\* what the collaborators of Init answer: whether the configuration can be
\* generated, and whether the file can be written
InitEnv(generateOK, writeFileOK) ==
    [generateOK |-> generateOK, writeFileOK |-> writeFileOK]

\* the result of Init: [err, out, events, fs]
initResult(err, evs, fsx) == [err |-> err, out |-> <<>>, events |-> evs, fs |-> fsx]

\* Init, had it written the file without looking for it
initFile_overwrite(fsx, evs, filePath, uncomment, document, ienv) ==
    IF ~ienv.generateOK
    THEN initResult("generate", Append(evs, Event("Stat", filePath)), fsx)
    ELSE IF ~ienv.writeFileOK
    THEN initResult("write-file",
                    evs \o <<Event("Stat", filePath), Event("WriteFile", filePath)>>, fsx)
    ELSE initResult("nil",
                    evs \o <<Event("Stat", filePath), Event("WriteFile", filePath)>>,
                    WriteFile(fsx, filePath, ConfigData(uncomment, document)))

\* Init once the directory is there: a file that exists is an error, else
\* the configuration is generated and written
initFile(fsx, evs, filePath, uncomment, document, ienv) ==
    IF Stat(fsx, filePath) # "none"
    THEN initResult("exists", Append(evs, Event("Stat", filePath)), fsx)
    ELSE IF ~ienv.generateOK
    THEN initResult("generate", Append(evs, Event("Stat", filePath)), fsx)
    ELSE IF ~ienv.writeFileOK
    THEN initResult("write-file",
                    evs \o <<Event("Stat", filePath), Event("WriteFile", filePath)>>, fsx)
    ELSE initResult("nil",
                    evs \o <<Event("Stat", filePath), Event("WriteFile", filePath)>>,
                    WriteFile(fsx, filePath, ConfigData(uncomment, document)))

\* Init with the directory given as the argument: it is made first
initDir(fsx, dirPath, uncomment, document, ienv) ==
    IF MkdirAllFails(fsx, dirPath)
    THEN initResult("mkdir", <<Event("MkdirAll", dirPath)>>, fsx)
    ELSE initFile(MkdirAll(fsx, dirPath), <<Event("MkdirAll", dirPath)>>,
                  Join(dirPath, DefaultConfigFilename), uncomment, document, ienv)

\* runner.Init
runnerInit(rr, fsx, args, uncomment, document, ienv) ==
    IF Len(args) > 1 THEN initResult("one-arg", <<>>, fsx)
    ELSE IF Len(args) = 1
    THEN initDir(fsx, args[1], uncomment, document, ienv)
    ELSE initFile(fsx, <<>>, Join(rr.workDirPath, DefaultConfigFilename), uncomment,
                  document, ienv)

\* the display paths of the files of the directories Files keeps, had it
\* kept every directory of the proto set
filesUnder_all(dirPathToFiles, dirPath) ==
    UNION {dirPathToFiles[d] : d \in DOMAIN dirPathToFiles}

\* runner.Files: the display paths of the files of the directories of
\* ProtoSet.DirPathToFiles whose path has the prefix ProtoSet.DirPath
filesUnder(dirPathToFiles, dirPath) ==
    UNION {dirPathToFiles[d] : d \in {x \in DOMAIN dirPathToFiles : HasPrefix(x, dirPath)}}

\* Files once getMeta has returned: the display paths are sorted and
\* printed, up to the first error
filesOf(m, dirPathToFiles, writeOK) ==
    IF m.err # "nil"
    THEN [err |-> m.err, out |-> <<>>, events |-> m.events, fds |-> <<>>]
    ELSE [err |-> printlnAll(<<>>, SortStrings(filesUnder(dirPathToFiles,
                                 AbsClean(m.meta.ProtoSet.DirPath))), writeOK).err,
          out |-> printlnAll(<<>>, SortStrings(filesUnder(dirPathToFiles,
                                 AbsClean(m.meta.ProtoSet.DirPath))), writeOK).out,
          events |-> m.events, fds |-> <<>>]

\* runner.Files, the provider having resolved the files dirPathToFiles
Files(rr, fsx, args, prov, dirPathToFiles, writeOK) ==
    filesOf(getMeta(rr, fsx, args, prov), dirPathToFiles, writeOK)

\* the test BreakCheck makes of the target against the work directory
withinWorkDir(absDirPath, absWorkDirPath) == HasPrefix(absDirPath, absWorkDirPath)

\* runner.getPackageSetForDescriptorSetPath: [err, out, events]
getPackageSetForDescriptorSetPath(descriptorSetPath, readOK, pkgOK) ==
    [err |-> IF ~readOK THEN "read" ELSE IF ~pkgOK THEN "package-set" ELSE "nil",
     out |-> <<>>,
     events |-> <<Event("ReadFile", descriptorSetPath)>>]

\* the result of a BreakCheck that has printed and done what sofar holds
breakResult(err, sofar, fsx) ==
    [err |-> err, out |-> sofar.out, events |-> sofar.events, fs |-> fsx]

\* the output and the events of two steps, one after the other
andThen(a, b) == [out |-> a.out \o b.out, events |-> a.events \o b.events]

\* the end of BreakCheck once the findings are printed
breakReport(sofar, fsx, pf) ==
    [err |-> IF pf.err # "nil" THEN pf.err ELSE "exit255",
     out |-> sofar.out \o pf.out, events |-> sofar.events, fs |-> fsx]

\* the end of BreakCheck, had it printed the findings in the error format
\* of the runner
breakCompare_runnerFormat(rr, sofar, fsx, brk, writeOK) ==
    IF brk.err THEN breakResult("breaking", sofar, fsx)
    ELSE IF Len(brk.failures) > 0
    THEN breakReport(sofar, fsx,
                     printFailuresForErrorFormat(rr, rr.errorFormat, <<>>, NilMeta,
                                                 brk.failures, writeOK))
    ELSE breakResult("nil", sofar, fsx)

\* the end of BreakCheck: the breaking runner and the print of its findings
breakCompare(rr, sofar, fsx, brk, writeOK) ==
    IF brk.err THEN breakResult("breaking", sofar, fsx)
    ELSE IF Len(brk.failures) > 0
    THEN breakReport(sofar, fsx,
                     printFailuresForErrorFormat(rr, <<"message">>, <<>>, NilMeta,
                                                 brk.failures, writeOK))
    ELSE breakResult("nil", sofar, fsx)

\* BreakCheck once the package set to compare with was asked for
breakWithFrom(rr, sofar, fsx, from, brk, writeOK) ==
    IF from.err # "nil" THEN breakResult(from.err, andThen(sofar, from), fsx)
    ELSE breakCompare(rr,
                      andThen(andThen(sofar, from),
                              [out |-> <<>>, events |-> <<Event("BreakingRun", <<>>)>>]),
                      fsx, brk, writeOK)

\* the deferred removal of the clone, had it run on success only
removeClone_onSuccess(res, cloneDirPath) ==
    IF res.err = "nil"
    THEN [res EXCEPT !.fs = RemoveAll(@, cloneDirPath),
                     !.events = Append(@, Event("RemoveAll", cloneDirPath))]
    ELSE res

\* the deferred function of BreakCheck: whatever the rest of the call
\* returned, the clone directory is removed
removeClone(res, cloneDirPath) ==
    [res EXCEPT !.fs = RemoveAll(@, cloneDirPath),
                !.events = Append(@, Event("RemoveAll", cloneDirPath))]

\* BreakCheck once git.TemporaryClone has returned the clone
breakWithClone(rr, sofar, cloneFs, relDirPath, env, writeOK) ==
    removeClone(
        breakWithFrom(rr, sofar, cloneFs,
                      getPackageSetAndConfigForRelDirPath(
                          cloneForWorkDirPath(rr, CloneDir), cloneFs, relDirPath,
                          env.from, writeOK),
                      env.brk, writeOK),
        CloneDir)

\* BreakCheck in git mode once the target passed the path checks
breakClone(rr, sofar, fsx, relDirPath, gitBranch, env, writeOK) ==
    IF ~env.cloneOK
    THEN breakResult("clone",
                     andThen(sofar, [out |-> <<>>,
                                     events |-> <<Event("TemporaryClone", gitBranch)>>]),
                     fsx)
    ELSE breakWithClone(rr,
                        andThen(sofar, [out |-> <<>>,
                                        events |-> <<Event("TemporaryClone", gitBranch),
                                                     Event("Cloned", CloneDir)>>]),
                        TemporaryClone(fsx, env.sameTree), relDirPath, env, writeOK)

\* BreakCheck in git mode: the checks of the target, then the clone
breakFromGit(rr, sofar, fsx, relDirPath, gitBranch, env, writeOK) ==
    IF IsAbs(relDirPath) THEN breakResult("not-relative", sofar, fsx)
    ELSE IF ~withinWorkDir(AbsClean(relDirPath), AbsClean(rr.workDirPath))
    THEN breakResult("not-within", sofar, fsx)
    ELSE breakClone(rr, sofar, fsx, relDirPath, gitBranch, env, writeOK)

\* BreakCheck, had it gone on to the package set to compare with whatever
\* the current tree gave
breakWithTo_ignoreTo(rr, fsx, args, gitBranch, descriptorSetPath, env, writeOK, to) ==
    IF descriptorSetPath # <<>>
    THEN breakWithFrom(rr, to, fsx,
                       getPackageSetForDescriptorSetPath(descriptorSetPath,
                                                         env.readOK, env.descPkgOK),
                       env.brk, writeOK)
    ELSE breakFromGit(rr, to, fsx, fileOrDirOf(args), gitBranch, env, writeOK)

\* BreakCheck once the package set of the current tree was asked for
breakWithTo(rr, fsx, args, gitBranch, descriptorSetPath, env, writeOK, to) ==
    IF to.err # "nil" THEN breakResult(to.err, to, fsx)
    ELSE IF descriptorSetPath # <<>>
    THEN breakWithFrom(rr, to, fsx,
                       getPackageSetForDescriptorSetPath(descriptorSetPath,
                                                         env.readOK, env.descPkgOK),
                       env.brk, writeOK)
    ELSE breakFromGit(rr, to, fsx, fileOrDirOf(args), gitBranch, env, writeOK)

\* runner.BreakCheck: [err, out, events, fs]
BreakCheck(rr, fsx, args, gitBranch, descriptorSetPath, env, writeOK) ==
    IF conflictingFlags(gitBranch, descriptorSetPath)
    THEN [err |-> "input255", out |-> <<>>, events |-> <<>>, fs |-> fsx]
    ELSE breakWithTo(rr, fsx, args, gitBranch, descriptorSetPath, env, writeOK,
                     getPackageSetAndConfig(rr, fsx, args, env.to, writeOK))

\* ---------------------------------------------------------------- toolchain cache

\* the cache root of a downloader without a cache path (the platform default)
DefaultCacheRoot == <<"/", "h">>

\* what one cache root may hold for the version of the configuration:
\* <root>/protobuf/<version>/ with the extracted compiler binary and the
\* well-known types, the ready marker, and <root>/protobuf/<version>.lock
VersionDir == "version"
ProtocBin == "bin"
ProtocInclude == "include"
ReadyMarker == "ready"
LockFile == "lock"

CacheFiles == {VersionDir, ProtocBin, ProtocInclude, ReadyMarker, LockFile}

\* runner.newDownloader: the downloader options taken from the runner
newDownloader(rr) ==
    [cachePath |-> rr.cachePath, protocBinPath |-> rr.protocBinPath,
     protocWKTPath |-> rr.protocWKTPath]

\* the cache root a downloader works on
cacheRootOf(d) ==
    IF d.cachePath = <<>> THEN DefaultCacheRoot ELSE AbsClean(d.cachePath)

\* the path Download returns: the version directory under the cache root
readyPath(root) == Join(Join(root, <<"p">>), <<"v">>)

\* the state of one Download: where it is, the cache entry, its error
DownloadState(pc, entry, err) == [pc |-> pc, entry |-> entry, err |-> err]

\* Download, had it written the ready marker before it extracted
downloadStep_markFirst(st, net) ==
    CASE st.pc = "check" ->
            DownloadState(IF ReadyMarker \in st.entry THEN "done" ELSE "acquire",
                          st.entry, "nil")
      [] st.pc = "acquire" -> DownloadState("recheck", st.entry \cup {LockFile}, "nil")
      [] st.pc = "recheck" ->
            DownloadState(IF ReadyMarker \in st.entry THEN "release" ELSE "fetch",
                          st.entry, "nil")
      [] st.pc = "fetch" ->
            IF net.fetchOK
            THEN DownloadState("extractBin", st.entry \cup {ReadyMarker}, "nil")
            ELSE DownloadState("release", st.entry, "download")
      [] st.pc = "extractBin" ->
            IF net.extracted >= 1
            THEN DownloadState("extractInclude",
                               (st.entry \ {ProtocInclude}) \cup {VersionDir, ProtocBin},
                               "nil")
            ELSE DownloadState("release", (st.entry \ {ProtocBin, ProtocInclude})
                                             \cup {VersionDir}, "extract")
      [] st.pc = "extractInclude" ->
            IF net.extracted >= 2
            THEN DownloadState("mark", st.entry \cup {ProtocInclude}, "nil")
            ELSE DownloadState("release", st.entry, "extract")
      [] st.pc = "mark" -> DownloadState("release", st.entry, "nil")
      [] st.pc = "release" -> DownloadState("done", st.entry, st.err)

\* Download, had it gone on to fetch without looking for the ready marker
\* again under the lock
downloadStep_noRecheck(st, net) ==
    CASE st.pc = "check" ->
            DownloadState(IF ReadyMarker \in st.entry THEN "done" ELSE "acquire",
                          st.entry, "nil")
      [] st.pc = "acquire" -> DownloadState("recheck", st.entry \cup {LockFile}, "nil")
      [] st.pc = "recheck" -> DownloadState("fetch", st.entry, "nil")
      [] st.pc = "fetch" ->
            IF net.fetchOK THEN DownloadState("extractBin", st.entry, "nil")
            ELSE DownloadState("release", st.entry, "download")
      [] st.pc = "extractBin" ->
            IF net.extracted >= 1
            THEN DownloadState("extractInclude",
                               (st.entry \ {ProtocInclude}) \cup {VersionDir, ProtocBin},
                               "nil")
            ELSE DownloadState("release", (st.entry \ {ProtocBin, ProtocInclude})
                                             \cup {VersionDir}, "extract")
      [] st.pc = "extractInclude" ->
            IF net.extracted >= 2
            THEN DownloadState("mark", st.entry \cup {ProtocInclude}, "nil")
            ELSE DownloadState("release", st.entry, "extract")
      [] st.pc = "mark" -> DownloadState("release", st.entry \cup {ReadyMarker}, "nil")
      [] st.pc = "release" -> DownloadState("done", st.entry, st.err)

\* Download, had it returned the error of a failed fetch or extraction
\* without releasing the lock
downloadStep_failNoRelease(st, net) ==
    CASE st.pc = "check" ->
            DownloadState(IF ReadyMarker \in st.entry THEN "done" ELSE "acquire",
                          st.entry, "nil")
      [] st.pc = "acquire" -> DownloadState("recheck", st.entry \cup {LockFile}, "nil")
      [] st.pc = "recheck" ->
            DownloadState(IF ReadyMarker \in st.entry THEN "release" ELSE "fetch",
                          st.entry, "nil")
      [] st.pc = "fetch" ->
            IF net.fetchOK THEN DownloadState("extractBin", st.entry, "nil")
            ELSE DownloadState("done", st.entry, "download")
      [] st.pc = "extractBin" ->
            IF net.extracted >= 1
            THEN DownloadState("extractInclude",
                               (st.entry \ {ProtocInclude}) \cup {VersionDir, ProtocBin},
                               "nil")
            ELSE DownloadState("done", (st.entry \ {ProtocBin, ProtocInclude})
                                          \cup {VersionDir}, "extract")
      [] st.pc = "extractInclude" ->
            IF net.extracted >= 2
            THEN DownloadState("mark", st.entry \cup {ProtocInclude}, "nil")
            ELSE DownloadState("done", st.entry, "extract")
      [] st.pc = "mark" -> DownloadState("release", st.entry \cup {ReadyMarker}, "nil")
      [] st.pc = "release" -> DownloadState("done", st.entry, st.err)

\* one step of Download on a cache entry. net is what the network and the
\* archive give: whether the fetch succeeds, and how many files extract.
\*   check:   the ready marker is there: done, without the lock
\*   acquire: the lock of the version is taken (its file is created)
\*   recheck: the ready marker is looked for again, under the lock
\*   fetch, extractBin, extractInclude: the archive is fetched and extracted
\*            into the version directory; a failure ends the download
\*   mark:    the ready marker is written, last
\*   release: the lock is released, on every path that took it
downloadStep(st, net) ==
    CASE st.pc = "check" ->
            DownloadState(IF ReadyMarker \in st.entry THEN "done" ELSE "acquire",
                          st.entry, "nil")
      [] st.pc = "acquire" -> DownloadState("recheck", st.entry \cup {LockFile}, "nil")
      [] st.pc = "recheck" ->
            DownloadState(IF ReadyMarker \in st.entry THEN "release" ELSE "fetch",
                          st.entry, "nil")
      [] st.pc = "fetch" ->
            IF net.fetchOK THEN DownloadState("extractBin", st.entry, "nil")
            ELSE DownloadState("release", st.entry, "download")
      [] st.pc = "extractBin" ->
            IF net.extracted >= 1
            THEN DownloadState("extractInclude",
                               (st.entry \ {ProtocInclude}) \cup {VersionDir, ProtocBin},
                               "nil")
            ELSE DownloadState("release", (st.entry \ {ProtocBin, ProtocInclude})
                                             \cup {VersionDir}, "extract")
      [] st.pc = "extractInclude" ->
            IF net.extracted >= 2
            THEN DownloadState("mark", st.entry \cup {ProtocInclude}, "nil")
            ELSE DownloadState("release", st.entry, "extract")
      [] st.pc = "mark" -> DownloadState("release", st.entry \cup {ReadyMarker}, "nil")
      [] st.pc = "release" -> DownloadState("done", st.entry, st.err)

\* what the network and the archive may give
Net(fetchOK, extracted) == [fetchOK |-> fetchOK, extracted |-> extracted]

Nets == {Net(FALSE, 0), Net(TRUE, 0), Net(TRUE, 1), Net(TRUE, 2)}

\* the lock of the version, had it been given to a caller while another
\* holds it
canAcquire_always(holder) == TRUE

\* the exclusive lock of the version is given only when no caller holds it
canAcquire(holder) == holder = "free"

\* Download run to its end by a caller that is alone
RECURSIVE downloadFrom(_, _)
downloadFrom(st, net) ==
    IF st.pc = "done" THEN st ELSE downloadFrom(downloadStep(st, net), net)

\* Downloader.Download by a caller that is alone: [err, path, cache]
Download(d, cache, net) ==
    [err |-> downloadFrom(DownloadState("check", cache[cacheRootOf(d)], "nil"), net).err,
     path |-> readyPath(cacheRootOf(d)),
     cache |-> [cache EXCEPT ![cacheRootOf(d)] =
                   downloadFrom(DownloadState("check", cache[cacheRootOf(d)], "nil"),
                                net).entry]]

\* Downloader.Delete: the default cache root is removed with all it holds;
\* with a cache path given nothing is removed, and it succeeds
Delete(d, cache) ==
    IF d.cachePath = <<>>
    THEN [err |-> "nil", cache |-> [cache EXCEPT ![DefaultCacheRoot] = {}]]
    ELSE [err |-> "nil", cache |-> cache]

\* CacheUpdate once getMeta has returned
cacheUpdateMeta(rr, m, cache, net) ==
    IF m.err # "nil"
    THEN [err |-> m.err, out |-> <<>>, events |-> m.events, fds |-> <<>>, cache |-> cache]
    ELSE [err |-> Download(newDownloader(rr), cache, net).err, out |-> <<>>,
          events |-> Append(m.events, Event("Download", cacheRootOf(newDownloader(rr)))),
          fds |-> <<>>, cache |-> Download(newDownloader(rr), cache, net).cache]

\* runner.CacheUpdate
CacheUpdate(rr, fsx, args, prov, cache, net) ==
    cacheUpdateMeta(rr, getMeta(rr, fsx, args, prov), cache, net)

\* CacheDelete once getMeta has returned
cacheDeleteMeta(rr, m, cache) ==
    IF m.err # "nil"
    THEN [err |-> m.err, out |-> <<>>, events |-> m.events, fds |-> <<>>, cache |-> cache]
    ELSE [err |-> Delete(newDownloader(rr), cache).err, out |-> <<>>,
          events |-> Append(m.events, Event("Delete", cacheRootOf(newDownloader(rr)))),
          fds |-> <<>>, cache |-> Delete(newDownloader(rr), cache).cache]

\* runner.CacheDelete: the meta of the current directory is resolved first
CacheDelete(rr, fsx, prov, cache) ==
    cacheDeleteMeta(rr, getMeta(rr, fsx, <<>>, prov), cache)

\* ---------------------------------------------------------------- processes

\* One run of the command line tool: getRunner builds the runner from the
\* flags, one command of the runner is called, and the error it returns
\* becomes the exit code (checkCmd).
VARIABLES
    phase,      \* "none": no process; "ready": runner built; "done": command returned
    r,          \* the runner of the process
    fs,         \* the file system
    call,       \* the command called, its flags, and what its collaborators answered
    ret,        \* what the command returned: its error, the descriptor sets it held
    out,        \* the lines written to the output stream
    events,     \* the calls the command made, in order
    exitCode,   \* the exit code of the last process
    cmdFlags,   \* the flags of the command line that getRunner reads
    environ,    \* the environment variables of the process
    cache,      \* what each cache root holds
    callers,    \* the concurrent callers of Download: where each one is
    lock,       \* the holder of the lock of the version, "free" without one
    hist        \* how many fetches began, downloads completed, Downloads failed

\* the state of the concurrent downloads
downloadVars == <<callers, lock, hist>>

\* the state of the process of the command line
processVars == <<phase, r, fs, call, ret, out, events, exitCode, cmdFlags, environ>>

vars ==
    <<phase, r, fs, call, ret, out, events, exitCode, cmdFlags, environ, cache,
      callers, lock, hist>>

\* the targets a command line may name
Targets == {PathS, PathF, PathDotF, PathUpW2, PathUp, PathAbsS, PathDev, PathGone}

\* the argument lists: no target, or one
TargetArgs == {<<>>} \cup {<<t>> : t \in Targets}

GitBranches == {<<>>, <<"b">>}

DescriptorSetPaths == {<<>>, <<"g">>}

OutputPaths == {<<>>, <<"g">>}

\* the flags of a command line
Flags(dryRun, gitBranch, descriptorSetPath, includeImports, includeSourceInfo, outputPath, tmp) ==
    [dryRun |-> dryRun, gitBranch |-> gitBranch,
     descriptorSetPath |-> descriptorSetPath, includeImports |-> includeImports,
     includeSourceInfo |-> includeSourceInfo, outputPath |-> outputPath, tmp |-> tmp]

NoFlags == Flags(FALSE, <<>>, <<>>, FALSE, FALSE, <<>>, FALSE)

NoBreakEnv == BreakEnv(NoEnv, TRUE, TRUE, TRUE, TRUE, NoEnv, NoBreak)

\* a call of a runner command; env is the environment of its compile (for
\* BreakCheck, of the compile of the current tree), benv that of the rest of
\* a BreakCheck
Call(op, args, flags, env, benv) ==
    [op |-> op, args |-> args, flags |-> flags, env |-> env, benv |-> benv]

NoCall == Call("none", <<>>, NoFlags, NoEnv, NoBreakEnv)

NoRet == [err |-> "nil", fds |-> <<>>]

\* printAndGetErrorExitCode: the code of an ExitError, 1 for any other error
ExitCodeOf(err) ==
    IF err = "nil" THEN 0
    ELSE IF err \in {"exit255", "input255"} THEN 255
    ELSE 1

\* printAndGetErrorExitCode: the message of the error, when it has one, is
\* printed on a line
errorLine(err) ==
    IF err \in {"nil", "exit255"} THEN <<>> ELSE <<err>>

\* the flags that getRunner reads
RunnerFlags(cachePath, errorFormat, json, protocBinPath, protocWKTPath, walkTimeout) ==
    [cachePath |-> cachePath, errorFormat |-> errorFormat, json |-> json,
     protocBinPath |-> protocBinPath, protocWKTPath |-> protocWKTPath,
     walkTimeout |-> walkTimeout, configData |-> <<>>, protocURL |-> <<>>]

NoRunnerFlags == RunnerFlags(<<>>, <<>>, FALSE, <<>>, <<>>, <<>>)

\* the environment variables that getRunner reads
Environ(cachePath, protocBinPath, protocWKTPath) ==
    [PROTOTOOL_CACHE_PATH |-> cachePath, PROTOTOOL_PROTOC_BIN_PATH |-> protocBinPath,
     PROTOTOOL_PROTOC_WKT_PATH |-> protocWKTPath]

NoEnviron == Environ(<<>>, <<>>, <<>>)

\* time.ParseDuration for a count of seconds: [err, d]
ParseDuration(s) ==
    IF Len(s) = 2 /\ s[1] \in {Itoa(k)[1] : k \in 1..3} /\ s[2] = "s"
    THEN [err |-> "nil", d |-> CHOOSE k \in 1..3 : Itoa(k)[1] = s[1]]
    ELSE [err |-> "duration", d |-> 0]

\* getRunner, had it let the environment variable override the flag
overrideOf_envFirst(flag, envValue) ==
    IF envValue # <<>> THEN envValue ELSE flag

\* getRunner: the override handed to the runner, the flag when it is set,
\* else the environment variable; the empty value hands none
overrideOf(flag, envValue) ==
    IF flag # <<>> THEN flag
    ELSE IF envValue # <<>> THEN envValue
    ELSE <<>>

\* getRunner: the walk timeout handed to the runner, none for an empty flag
walkTimeoutOf(flag) ==
    IF flag # <<>> THEN ParseDuration(flag) ELSE [err |-> "nil", d |-> 0]

\* getRunner: the runner options of a command line and an environment
getRunnerOptions(fl, env) ==
    [err |-> walkTimeoutOf(fl.walkTimeout).err,
     options |-> [RunnerOptions(overrideOf(fl.cachePath, env.PROTOTOOL_CACHE_PATH),
                                fl.errorFormat, fl.json,
                                overrideOf(fl.protocBinPath, env.PROTOTOOL_PROTOC_BIN_PATH),
                                overrideOf(fl.protocWKTPath, env.PROTOTOOL_PROTOC_WKT_PATH),
                                walkTimeoutOf(fl.walkTimeout).d)
                  EXCEPT !.configData = fl.configData, !.protocURL = fl.protocURL]]

\* the cache paths of the command lines and environments: a relative one
\* for the flag, another for the environment variable
FlagCachePath == <<"c">>
EnvCachePath == <<"/", "e">>

\* the cache roots told apart
CacheRoots == {DefaultCacheRoot, AbsClean(FlagCachePath), AbsClean(EnvCachePath)}

\* no cache root holds anything
EmptyCache == [root \in CacheRoots |-> {}]

\* the callers of the concurrent downloads
Callers == {"a", "b"}

\* a caller: where its Download is, the error it returned last, whether it
\* took the lock and looked for the marker again in this Download, the path
\* returned, and how many Downloads it began
Caller(pc, err, locked, rechecked, path, calls) ==
    [pc |-> pc, err |-> err, locked |-> locked, rechecked |-> rechecked,
     path |-> path, calls |-> calls]

NoCaller == Caller("idle", "nil", FALSE, FALSE, <<>>, 0)

NoHist == [fetches |-> 0, extractions |-> 0, failures |-> 0]

Init ==
    /\ phase = "none"
    /\ r = NoRunner
    /\ fs = InitialFs
    /\ call = NoCall
    /\ ret = NoRet
    /\ out = <<>>
    /\ events = <<>>
    /\ exitCode = 0
    /\ cmdFlags = NoRunnerFlags
    /\ environ = NoEnviron
    /\ cache = EmptyCache
    /\ callers = [c \in Callers |-> NoCaller]
    /\ lock = "free"
    /\ hist = NoHist

\* cmd.getRunner for one command line and environment: the runner is built
\* with the work directory the current directory, or the error of the walk
\* timeout is returned and the process has no runner
getRunnerFor(outputOK, fl, env, res) ==
    /\ phase = "none"
    /\ cmdFlags' = fl
    /\ environ' = env
    /\ phase' = IF res.err = "nil" THEN "ready" ELSE "done"
    /\ r' = IF res.err = "nil" THEN newRunner(Cwd, outputOK, res.options) ELSE NoRunner
    /\ ret' = [err |-> res.err, fds |-> <<>>]
    /\ call' = NoCall
    /\ out' = <<>>
    /\ events' = <<>>
    /\ exitCode' = 0
    /\ UNCHANGED <<fs, cache, downloadVars>>

\* cmd.getRunner: a process starts; the flags give the error format and the
\* json option
getRunner ==
    \E outputOK \in BOOLEAN, errorFormat \in ErrorFormats, json \in BOOLEAN :
        getRunnerFor(outputOK,
                     RunnerFlags(<<>>, errorFormat, json, <<>>, <<>>, <<>>), NoEnviron,
                     getRunnerOptions(RunnerFlags(<<>>, errorFormat, json, <<>>, <<>>, <<>>),
                                      NoEnviron))

\* the state after a command has returned
Return(c, res, fsx) ==
    /\ phase' = "done"
    /\ call' = c
    /\ ret' = [err |-> res.err, fds |-> res.fds]
    /\ out' = res.out
    /\ events' = res.events
    /\ fs' = fsx
    /\ UNCHANGED <<r, exitCode, cmdFlags, environ, cache, downloadVars>>

\* compileCmdTemplate: prototool compile [dirOrFile] [--dry-run]
CompileCmd ==
    /\ phase = "ready"
    /\ \E args \in TargetArgs, dryRun \in BOOLEAN :
         \E env \in ResolveEnvs(r, fs, args, dryRun, FALSE) :
           Return(Call("Compile", args, [NoFlags EXCEPT !.dryRun = dryRun], env, NoBreakEnv),
                  Compile(r, fs, args, dryRun, env, r.outputOK), fs)

\* generateCmdTemplate: prototool generate [dirOrFile] [--dry-run]
GenCmd ==
    /\ phase = "ready"
    /\ \E args \in TargetArgs, dryRun \in BOOLEAN :
         \E env \in ResolveEnvs(r, fs, args, dryRun, FALSE) :
           Return(Call("Gen", args, [NoFlags EXCEPT !.dryRun = dryRun], env, NoBreakEnv),
                  Gen(r, fs, args, dryRun, env, r.outputOK), fs)

\* allCmdTemplate: prototool all [dirOrFile]
AllCmd ==
    /\ phase = "ready"
    /\ \E args \in TargetArgs :
         \E env \in ResolveEnvs(r, fs, args, FALSE, FALSE) :
           Return(Call("All", args, NoFlags, env, NoBreakEnv),
                  All(r, fs, args, env, r.outputOK), fs)

\* the environments worth telling apart for one DescriptorSet: none when
\* it stops at its flags
DescriptorSetEnvs(rr, fsx, args, includeImports, outputPath, tmp) ==
    IF DescriptorSet(rr, fsx, args, includeImports, includeImports, outputPath, tmp,
                     NoEnv, TRUE).events = <<>>
    THEN {NoEnv}
    ELSE ResolveEnvs(rr, fsx, args, FALSE, TRUE)

\* the flag sets of DescriptorSet that are tried: every way to say where
\* the output goes, and the imports and source info for the plain output
DescriptorSetFlags ==
    { [NoFlags EXCEPT !.includeImports = x[1], !.includeSourceInfo = x[1],
                      !.outputPath = x[2], !.tmp = x[3]] :
        x \in {y \in BOOLEAN \X OutputPaths \X BOOLEAN :
                  y[1] => (y[2] = <<>> /\ ~y[3])} }

\* a call of Runner.DescriptorSet
DescriptorSetCmd ==
    /\ phase = "ready"
    /\ \E args \in TargetArgs, flags \in DescriptorSetFlags :
         \E env \in DescriptorSetEnvs(r, fs, args, flags.includeImports,
                                      flags.outputPath, flags.tmp) :
           Return(Call("DescriptorSet", args, flags, env, NoBreakEnv),
                  DescriptorSet(r, fs, args, flags.includeImports,
                                flags.includeSourceInfo, flags.outputPath, flags.tmp,
                                env, r.outputOK),
                  fs)

\* a call of Runner.InspectPackages
InspectPackagesCmd ==
    /\ phase = "ready"
    /\ \E args \in TargetArgs :
         \E env \in ResolveEnvs(r, fs, args, FALSE, TRUE) :
           Return(Call("InspectPackages", args, NoFlags, env, NoBreakEnv),
                  InspectPackages(r, fs, args, env, r.outputOK), fs)

\* the environments of the breaking runner worth telling apart
BreakResultsIf(reached) == IF reached THEN BreakResults ELSE {NoBreak}

\* the environments of a BreakCheck whose clone holds the tree cloneFs
BreakEnvsFrom(rr, cloneFs, relDirPath, to, sameTree) ==
    { BreakEnv(to, TRUE, TRUE, TRUE, sameTree, x[1], x[2]) :
        x \in UNION { {from} \X BreakResultsIf(
                          getPackageSetAndConfigForRelDirPath(
                              rr, cloneFs, relDirPath, from, TRUE).err = "nil")
                      : from \in ResolveEnvs(rr, cloneFs,
                                             <<relDirTarget(rr.workDirPath, relDirPath)>>,
                                             FALSE, TRUE) } }

\* the environments of a BreakCheck that compares with a descriptor set file
BreakEnvsDescriptorSet(to) ==
    { BreakEnv(to, FALSE, TRUE, TRUE, TRUE, NoEnv, NoBreak),
      BreakEnv(to, TRUE, FALSE, TRUE, TRUE, NoEnv, NoBreak) }
        \cup { BreakEnv(to, TRUE, TRUE, TRUE, TRUE, NoEnv, brk) : brk \in BreakResults }

\* the environments of a BreakCheck that compares with a git reference
BreakEnvsGit(rr, fsx, args, to, reached) ==
    IF ~reached THEN {BreakEnv(to, TRUE, TRUE, TRUE, TRUE, NoEnv, NoBreak)}
    ELSE {BreakEnv(to, TRUE, TRUE, FALSE, TRUE, NoEnv, NoBreak)}
            \cup UNION { BreakEnvsFrom(cloneForWorkDirPath(rr, CloneDir),
                                       TemporaryClone(fsx, sameTree), fileOrDirOf(args),
                                       to, sameTree)
                         : sameTree \in BOOLEAN }

\* the environments of a BreakCheck once the current tree answered `to`
BreakEnvsTo(rr, fsx, args, gitBranch, descriptorSetPath, to, toOK) ==
    IF ~toOK THEN {BreakEnv(to, TRUE, TRUE, TRUE, TRUE, NoEnv, NoBreak)}
    ELSE IF descriptorSetPath # <<>> THEN BreakEnvsDescriptorSet(to)
    ELSE BreakEnvsGit(rr, fsx, args, to,
                      BreakCheck(rr, fsx, args, gitBranch, descriptorSetPath,
                                 BreakEnv(to, TRUE, TRUE, FALSE, TRUE, NoEnv, NoBreak),
                                 TRUE).err = "clone")

\* the environments worth telling apart for one BreakCheck: the answers of
\* collaborators that are never asked are left at their default
BreakEnvs(rr, fsx, args, gitBranch, descriptorSetPath) ==
    IF BreakCheck(rr, fsx, args, gitBranch, descriptorSetPath, NoBreakEnv, TRUE).events
          = <<>>
    THEN {NoBreakEnv}
    ELSE UNION { BreakEnvsTo(rr, fsx, args, gitBranch, descriptorSetPath, to,
                             getPackageSetAndConfig(rr, fsx, args, to, TRUE).err = "nil")
                 : to \in ResolveEnvs(rr, fsx, args, FALSE, TRUE) }

\* the state after BreakCheck has returned
ReturnBreak(c, res) ==
    Return(c, [err |-> res.err, fds |-> <<>>, out |-> res.out, events |-> res.events],
           res.fs)

\* a call of Runner.BreakCheck, with a git branch, a descriptor set path,
\* both or neither
BreakCheckCmd ==
    /\ phase = "ready"
    /\ \E args \in TargetArgs, gitBranch \in GitBranches,
          descriptorSetPath \in DescriptorSetPaths :
         \E benv \in BreakEnvs(r, fs, args, gitBranch, descriptorSetPath) :
           ReturnBreak(Call("BreakCheck", args,
                            [NoFlags EXCEPT !.gitBranch = gitBranch,
                                            !.descriptorSetPath = descriptorSetPath],
                            benv.to, benv),
                       BreakCheck(r, fs, args, gitBranch, descriptorSetPath, benv,
                                  r.outputOK))

\* cmd.checkCmd after the command: the error is printed and becomes the
\* exit code, and the process ends
Exit ==
    /\ phase = "done"
    /\ phase' = "none"
    /\ exitCode' = ExitCodeOf(ret.err)
    /\ out' = println(out, errorLine(ret.err), r.outputOK).out
    /\ r' = NoRunner
    /\ call' = NoCall
    /\ ret' = NoRet
    /\ events' = <<>>
    /\ cmdFlags' = NoRunnerFlags
    /\ environ' = NoEnviron
    /\ UNCHANGED <<fs, cache, downloadVars>>

Next ==
    \/ getRunner
    \/ CompileCmd
    \/ GenCmd
    \/ AllCmd
    \/ DescriptorSetCmd
    \/ InspectPackagesCmd
    \/ BreakCheckCmd
    \/ Exit

Spec == Init /\ [][Next]_vars

\* the walk timeouts a command line may give: none, one and two seconds, and
\* one that is no duration
WalkTimeoutFlags == {<<>>, <<"1", "s">>, <<"2", "s">>, <<"x">>}

\* cmd.getRunner: a process starts; the flags give the walk timeout
getRunnerWalk ==
    \E walkTimeout \in WalkTimeoutFlags :
        getRunnerFor(TRUE, RunnerFlags(<<>>, <<>>, FALSE, <<>>, <<>>, walkTimeout), NoEnviron,
                     getRunnerOptions(RunnerFlags(<<>>, <<>>, FALSE, <<>>, <<>>, walkTimeout),
                                      NoEnviron))

\* the processes whose command line bounds the walk
NextWalk ==
    \/ getRunnerWalk
    \/ CompileCmd
    \/ GenCmd
    \/ AllCmd
    \/ DescriptorSetCmd
    \/ InspectPackagesCmd
    \/ BreakCheckCmd
    \/ Exit

SpecWalk == Init /\ [][NextWalk]_vars

\* the overrides of the command lines and environments: one value for each
\* flag and each environment variable, or none
FlagBinPath == <<"/", "b">>
EnvBinPath == <<"/", "b", "2">>
FlagWKTPath == <<"/", "i">>
EnvWKTPath == <<"/", "i", "2">>

\* the command lines that give overrides
OverrideFlags ==
    {RunnerFlags(x[1], <<>>, FALSE, x[2], x[3], <<>>) :
        x \in {<<>>, FlagCachePath} \X {<<>>, FlagBinPath} \X {<<>>, FlagWKTPath}}

\* the environments that give overrides
Environs ==
    {Environ(x[1], x[2], x[3]) :
        x \in {<<>>, EnvCachePath} \X {<<>>, EnvBinPath} \X {<<>>, EnvWKTPath}}

\* cmd.getRunner: a process starts; the flags and the environment give the
\* cache path, the protoc binary path and the well-known types path
getRunnerOverrides ==
    \E fl \in OverrideFlags, env \in Environs :
        getRunnerFor(TRUE, fl, env, getRunnerOptions(fl, env))

\* the processes whose command line and environment give overrides
NextOverrides ==
    \/ getRunnerOverrides
    \/ AllCmd
    \/ Exit

SpecOverrides == Init /\ [][NextOverrides]_vars

\* cmd.getRunner: a process starts; the flag and the environment give the
\* cache path
getRunnerCache ==
    \E cachePath \in {<<>>, FlagCachePath}, envCachePath \in {<<>>, EnvCachePath} :
        getRunnerFor(TRUE, RunnerFlags(cachePath, <<>>, FALSE, <<>>, <<>>, <<>>),
                     Environ(envCachePath, <<>>, <<>>),
                     getRunnerOptions(RunnerFlags(cachePath, <<>>, FALSE, <<>>, <<>>, <<>>),
                                      Environ(envCachePath, <<>>, <<>>)))

\* the state after a cache command has returned
ReturnCache(c, res) ==
    /\ phase' = "done"
    /\ call' = c
    /\ ret' = [err |-> res.err, fds |-> res.fds]
    /\ out' = res.out
    /\ events' = res.events
    /\ cache' = res.cache
    /\ UNCHANGED <<r, fs, exitCode, cmdFlags, environ, downloadVars>>

\* the answers of the provider worth telling apart for a cache command
CacheProviderResults(rr, fsx, args) ==
    IF getMeta(rr, fsx, args, NoProviderResult).events = <<Event("Stat", fileOrDirOf(args))>>
    THEN {NoProviderResult}
    ELSE {GetForDir(rr.protoSetProvider.walkTimeout, Walk(1, ok, 1)) : ok \in BOOLEAN}

\* cacheUpdateCmdTemplate: prototool cache update [dirOrFile]
CacheUpdateCmd ==
    /\ phase = "ready"
    /\ \E args \in {<<>>, <<PathS>>, <<PathGone>>}, net \in Nets :
         \E prov \in CacheProviderResults(r, fs, args) :
           ReturnCache(Call("CacheUpdate", args, NoFlags,
                            Env(prov, <<>>, NoCommands, TRUE), NoBreakEnv),
                       CacheUpdate(r, fs, args, prov, cache, net))

\* cacheDeleteCmdTemplate: prototool cache delete; the command binds no flag
CacheDeleteCmd ==
    /\ phase = "ready"
    /\ cmdFlags = NoRunnerFlags
    /\ \E prov \in CacheProviderResults(r, fs, <<>>) :
         ReturnCache(Call("CacheDelete", <<>>, NoFlags,
                          Env(prov, <<>>, NoCommands, TRUE), NoBreakEnv),
                     CacheDelete(r, fs, prov, cache))

\* the processes of the cache commands
NextCache ==
    \/ getRunnerCache
    \/ CacheUpdateCmd
    \/ CacheDeleteCmd
    \/ Exit

SpecCache == Init /\ [][NextCache]_vars

\* the cache root of the concurrent callers: that of runners without a
\* cache path
DownloadRoot == cacheRootOf(newDownloader(NoRunner))

\* the caller after the step at pc of its Download led to st
callerAfter(cl, pc, st) ==
    Caller(st.pc, st.err, cl.locked \/ pc = "acquire", cl.rechecked \/ pc = "recheck",
           IF st.pc = "done" /\ st.err = "nil" THEN readyPath(DownloadRoot) ELSE <<>>,
           cl.calls)

\* the holder of the lock after caller c made the step at pc
lockAfter(holder, c, pc) ==
    IF pc = "acquire" THEN c
    ELSE IF pc = "release" THEN "free"
    ELSE holder

\* the counts after the step at pc led to st: a fetch began, a download and
\* extraction was completed (up to its last step), a Download failed
histAfter(h, pc, st) ==
    [fetches |-> h.fetches + (IF pc = "fetch" THEN 1 ELSE 0),
     extractions |-> h.extractions + (IF pc = "mark" THEN 1 ELSE 0),
     failures |-> h.failures + (IF pc # "release" /\ st.err # "nil" THEN 1 ELSE 0)]

\* runner.CacheUpdate by caller c: the meta is resolved, the downloader is
\* built, and Download begins
CacheUpdateBegin(c) ==
    /\ callers[c].pc \in {"idle", "done"}
    /\ callers[c].calls < MaxCalls
    /\ callers' = [callers EXCEPT
                     ![c] = Caller("check", "nil", FALSE, FALSE, <<>>, @.calls + 1)]
    /\ UNCHANGED <<processVars, cache, lock, hist>>

\* the state after caller c made the step at pc of its Download
DownloadStepTo(c, pc, st) ==
    /\ callers' = [callers EXCEPT ![c] = callerAfter(callers[c], pc, st)]
    /\ cache' = [cache EXCEPT ![DownloadRoot] = st.entry]
    /\ lock' = lockAfter(lock, c, pc)
    /\ hist' = histAfter(hist, pc, st)
    /\ UNCHANGED processVars

\* Download by caller c: the lock is taken, when no caller holds it
DownloadAcquire(c) ==
    /\ callers[c].pc = "acquire"
    /\ canAcquire(lock)
    /\ DownloadStepTo(c, "acquire",
                      downloadStep(DownloadState("acquire", cache[DownloadRoot],
                                                 callers[c].err), Net(TRUE, 2)))

\* Download by caller c: a look for the ready marker, the fetch, the
\* extraction of a file, or the writing of the ready marker
DownloadStep(c) ==
    /\ callers[c].pc \in {"check", "recheck", "fetch", "extractBin", "extractInclude", "mark"}
    /\ \E net \in Nets :
         DownloadStepTo(c, callers[c].pc,
                        downloadStep(DownloadState(callers[c].pc, cache[DownloadRoot],
                                                   callers[c].err), net))

\* Download by caller c: the lock is released and Download returns
DownloadRelease(c) ==
    /\ callers[c].pc = "release"
    /\ DownloadStepTo(c, "release",
                      downloadStep(DownloadState("release", cache[DownloadRoot],
                                                 callers[c].err), Net(TRUE, 2)))

\* the process of caller c is terminated in the middle of its Download: the
\* lock it holds is released with the process, the files stay as they are
Kill(c) ==
    /\ callers[c].pc \notin {"idle", "done"}
    /\ callers' = [callers EXCEPT
                     ![c] = Caller("done", "killed", @.locked, @.rechecked, <<>>, @.calls)]
    /\ lock' = IF lock = c THEN "free" ELSE lock
    /\ hist' = [hist EXCEPT !.failures = @ + 1]
    /\ UNCHANGED <<processVars, cache>>

\* the concurrent callers of cache update
NextDownload ==
    \E c \in Callers :
        \/ CacheUpdateBegin(c)
        \/ DownloadAcquire(c)
        \/ DownloadStep(c)
        \/ DownloadRelease(c)
        \/ Kill(c)

SpecDownload == Init /\ [][NextDownload]_vars

\* the compiled files of the descriptor sets: foo imports bar, another file
\* of foo, a file of the unnamed package and baz; baz and the unnamed
\* package import bar; bar comes with two contents
FileFoo == FileDescriptor(<<"f">>, PkgFoo, <<<<"b">>, <<"g">>, <<"d">>, <<"c">>>>, "1")
FileFoo2 == FileDescriptor(<<"g">>, PkgFoo, <<>>, "1")
FileBar == FileDescriptor(<<"b">>, PkgBar, <<>>, "1")
FileBarChanged == FileDescriptor(<<"b">>, PkgBar, <<>>, "2")
FileBaz == FileDescriptor(<<"c">>, PkgBaz, <<<<"b">>>>, "1")
FileDefault == FileDescriptor(<<"d">>, PkgDefault, <<<<"b">>>>, "1")

\* the descriptor sets protoc may write for a group, the imports included
\* or not
FileDescriptorSets ==
    {<<FileFoo, FileFoo2, FileBar, FileDefault>>, <<FileFoo>>, <<FileBar>>,
     <<FileBarChanged>>, <<FileBaz, FileBar>>}

\* the names a command line may give: none, a package, one that is unknown
PackageNames == {<<>>, PkgFoo, PkgBar, PkgBaz, <<"x">>}

\* a call of a command of the package graph: the call, the name it gives and
\* the descriptor sets that protoc wrote
PackageCall(op, args, flags, name, env, descs) ==
    [op |-> op, args |-> args, flags |-> flags, env |-> env, benv |-> NoBreakEnv,
     name |-> name, descs |-> descs]

\* the descriptor sets worth telling apart for a compile that returned n of
\* them: none when the compile returned none
DescriptorSetsFor(reached, n) ==
    IF reached THEN [1..n -> FileDescriptorSets] ELSE {<<>>}

\* the descriptor sets of a command that builds the package set
PackageDescriptorSets(rr, fsx, args, env) ==
    DescriptorSetsFor(getPackageSetAndConfig(rr, fsx, args, env, rr.outputOK).err = "nil",
                      Len(getPackageSetAndConfig(rr, fsx, args, env, rr.outputOK)
                              .packageSet.files))

\* the descriptor sets of a DescriptorSet: it merges them when it would
\* have returned without error had the merge and the output not failed
MergeDescriptorSets(rr, fsx, args, flags, env) ==
    DescriptorSetsFor(DescriptorSet(rr, fsx, args, flags.includeImports,
                                    flags.includeSourceInfo, flags.outputPath,
                                    flags.tmp, env, TRUE).err = "nil",
                      Len(DescriptorSet(rr, fsx, args, flags.includeImports,
                                        flags.includeSourceInfo, flags.outputPath,
                                        flags.tmp, env, TRUE).fds))

\* the environments of a listing of the packages of a package: none when
\* it stops at its name
PackageEnvs(rr, fsx, args, name) ==
    IF name = <<>> THEN {NoEnv} ELSE ResolveEnvs(rr, fsx, args, FALSE, FALSE)

\* cmd.getRunner: a process starts; the output may fail
getRunnerPackages ==
    \E outputOK \in BOOLEAN :
        getRunnerFor(outputOK, NoRunnerFlags, NoEnviron,
                     getRunnerOptions(NoRunnerFlags, NoEnviron))

\* a call of Runner.InspectPackages
InspectPackagesOfCmd ==
    /\ phase = "ready"
    /\ \E args \in TargetArgs :
         \E env \in ResolveEnvs(r, fs, args, FALSE, FALSE) :
           \E descs \in PackageDescriptorSets(r, fs, args, env) :
             Return(PackageCall("InspectPackages", args, NoFlags, <<>>, env, descs),
                    InspectPackagesOf(r, fs, args, env, descs, r.outputOK), fs)

\* a call of Runner.InspectPackageDeps
InspectPackageDepsCmd ==
    /\ phase = "ready"
    /\ \E args \in TargetArgs, name \in PackageNames :
         \E env \in PackageEnvs(r, fs, args, name) :
           \E descs \in PackageDescriptorSets(r, fs, args, env) :
             Return(PackageCall("InspectPackageDeps", args, NoFlags, name, env, descs),
                    InspectPackageDeps(r, fs, args, name, env, descs, r.outputOK), fs)

\* a call of Runner.InspectPackageImporters
InspectPackageImportersCmd ==
    /\ phase = "ready"
    /\ \E args \in TargetArgs, name \in PackageNames :
         \E env \in PackageEnvs(r, fs, args, name) :
           \E descs \in PackageDescriptorSets(r, fs, args, env) :
             Return(PackageCall("InspectPackageImporters", args, NoFlags, name, env, descs),
                    InspectPackageImporters(r, fs, args, name, env, descs, r.outputOK),
                    fs)

\* a call of Runner.DescriptorSet
DescriptorSetOfCmd ==
    /\ phase = "ready"
    /\ \E args \in TargetArgs, flags \in DescriptorSetFlags :
         \E env \in ResolveEnvs(r, fs, args, FALSE, FALSE) :
           \E descs \in MergeDescriptorSets(r, fs, args, flags, env) :
             Return(PackageCall("DescriptorSet", args, flags, <<>>, env, descs),
                    DescriptorSetOf(r, fs, args, flags, env, descs, r.outputOK), fs)

\* the processes whose compile writes descriptor sets that are merged
NextPackages ==
    \/ getRunnerPackages
    \/ InspectPackagesOfCmd
    \/ InspectPackageDepsCmd
    \/ InspectPackageImportersCmd
    \/ DescriptorSetOfCmd
    \/ Exit

SpecPackages == Init /\ [][NextPackages]_vars

\* the environments worth telling apart for one BreakDescriptorSet: none
\* when it stops at its output path
BreakDescriptorSetEnvs(rr, fsx, args, outputPath) ==
    IF outputPath = <<>> THEN {NoEnv} ELSE ResolveEnvs(rr, fsx, args, FALSE, TRUE)

\* a call of Runner.BreakDescriptorSet
BreakDescriptorSetCmd ==
    /\ phase = "ready"
    /\ \E args \in TargetArgs, outputPath \in OutputPaths :
         \E env \in BreakDescriptorSetEnvs(r, fs, args, outputPath) :
           Return(Call("BreakDescriptorSet", args, [NoFlags EXCEPT !.outputPath = outputPath],
                       env, NoBreakEnv),
                  BreakDescriptorSet(r, fs, args, outputPath, env, r.outputOK), fs)

\* the processes of every command of the runner that compiles
NextOperations ==
    \/ getRunnerPackages
    \/ CompileCmd
    \/ GenCmd
    \/ AllCmd
    \/ DescriptorSetCmd
    \/ BreakDescriptorSetCmd
    \/ InspectPackagesCmd
    \/ InspectPackageDepsCmd
    \/ InspectPackageImportersCmd
    \/ BreakCheckCmd
    \/ Exit

SpecOperations == Init /\ [][NextOperations]_vars

\* the configuration given on the command line, and the download URL
FlagConfigData == <<"{", "}">>
FlagProtocURL == <<"/", "x">>

\* the command lines of the processes that clone: no flag, every runner
\* flag but the walk timeout, and the walk timeout alone
CloneFlags ==
    { NoRunnerFlags,
      [RunnerFlags(FlagCachePath, <<"filename", ":", "line", ":", "column", ":", "id", ":", "message">>,
                   TRUE, FlagBinPath, FlagWKTPath, <<>>)
          EXCEPT !.configData = FlagConfigData, !.protocURL = FlagProtocURL],
      RunnerFlags(<<>>, <<>>, FALSE, <<>>, <<>>, <<"1", "s">>) }

\* the runner options of getRunner, with RunnerWithDevelMode if asked
withDevelMode(res, develMode) == [res EXCEPT !.options.develMode = develMode]

\* cmd.getRunner: a process starts; the command line gives every runner
\* flag, and the build may be a development build
getRunnerClone ==
    \E fl \in CloneFlags, develMode \in BOOLEAN :
        getRunnerFor(TRUE, fl, NoEnviron,
                     withDevelMode(getRunnerOptions(fl, NoEnviron), develMode))

\* the processes that compare with a git branch
NextClone ==
    \/ getRunnerClone
    \/ BreakCheckCmd
    \/ Exit

SpecClone == Init /\ [][NextClone]_vars

\* what the file system may answer about the file of one DescriptorSet: a
\* file that cannot be created is neither written nor closed, and no file
\* is asked for when the data goes to the output
FileIOs(outputPath, tmp) ==
    IF outputPath = <<>> /\ ~tmp THEN {FileOK}
    ELSE {FileIO(FALSE, TRUE, TRUE)}
             \cup {FileIO(TRUE, x[1], x[2]) : x \in BOOLEAN \X BOOLEAN}

\* the environment of a DescriptorSet with the answers about its file
withFileIO(env, io) == [env EXCEPT !.io = io]

\* cmd.getRunner: a process starts; the flags give the json option
getRunnerDescriptorSet ==
    \E outputOK \in BOOLEAN, json \in BOOLEAN :
        getRunnerFor(outputOK, RunnerFlags(<<>>, <<>>, json, <<>>, <<>>, <<>>), NoEnviron,
                     getRunnerOptions(RunnerFlags(<<>>, <<>>, json, <<>>, <<>>, <<>>),
                                      NoEnviron))

\* a call of Runner.DescriptorSet whose file may fail to be created,
\* written or closed
DescriptorSetFileCmd ==
    /\ phase = "ready"
    /\ \E args \in TargetArgs, flags \in DescriptorSetFlags :
         \E env \in DescriptorSetEnvs(r, fs, args, flags.includeImports,
                                      flags.outputPath, flags.tmp),
            io \in FileIOs(flags.outputPath, flags.tmp) :
           Return(Call("DescriptorSet", args, flags, withFileIO(env, io), NoBreakEnv),
                  DescriptorSet(r, fs, args, flags.includeImports,
                                flags.includeSourceInfo, flags.outputPath, flags.tmp,
                                withFileIO(env, io), r.outputOK),
                  fs)

\* the processes that emit a descriptor set
NextDescriptorSet ==
    \/ getRunnerDescriptorSet
    \/ DescriptorSetFileCmd
    \/ Exit

SpecDescriptorSet == Init /\ [][NextDescriptorSet]_vars

\* the directories of the work tree that hold .proto files: the work
\* directory, s, s/g and s2
ProtoDirs ==
    { <<"/", "w">>, <<"/", "w", "/", "s">>, <<"/", "w", "/", "s", "/", "g">>,
      <<"/", "w", "/", "s", "2">> }

\* the display paths (relative to the work directory) of the .proto files
\* of a directory
DisplayPaths(dirPath) ==
    IF dirPath = <<"/", "w">> THEN {<<"f">>}
    ELSE IF dirPath = <<"/", "w", "/", "s">>
    THEN {<<"s", "/", "b">>, <<"s", "/", "a">>}
    ELSE IF dirPath = <<"/", "w", "/", "s", "/", "g">>
    THEN {<<"s", "/", "g", "/", "a">>}
    ELSE {<<"s", "2", "/", "a">>}

\* ProtoSet.DirPathToFiles as the provider may resolve it: the files of the
\* directories that share the configuration of the target, which may be any
\* of the directories of the tree
DirPathToFilesOf(reached) ==
    IF reached
    THEN {[d \in dirs |-> DisplayPaths(d)] : dirs \in (SUBSET ProtoDirs) \ {{}}}
    ELSE {[d \in {} |-> {}]}

\* a call of the files command: the call and the files the provider resolved
FilesCall(args, prov, dirPathToFiles) ==
    [op |-> "Files", args |-> args, flags |-> NoFlags,
     env |-> Env(prov, <<>>, NoCommands, TRUE), benv |-> NoBreakEnv,
     dirPathToFiles |-> dirPathToFiles]

\* a call of Runner.Files
FilesCmd ==
    /\ phase = "ready"
    /\ \E args \in TargetArgs :
         \E prov \in CacheProviderResults(r, fs, args) :
           \E dirPathToFiles \in DirPathToFilesOf(getMeta(r, fs, args, prov).err = "nil") :
             Return(FilesCall(args, prov, dirPathToFiles),
                    Files(r, fs, args, prov, dirPathToFiles, r.outputOK), fs)

\* the processes that list files
NextFiles ==
    \/ getRunnerPackages
    \/ FilesCmd
    \/ Exit

SpecFiles == Init /\ [][NextFiles]_vars

\* the argument lists of config init: none, a directory that exists, one
\* that does not, a regular file, and two arguments
InitArgs == {<<>>, <<PathS>>, <<PathSG>>, <<PathF>>, <<PathS, PathSG>>}

\* a call of config init: the call, its flags and what its collaborators
\* answer
InitCall(args, uncomment, document, ienv) ==
    [op |-> "Init", args |-> args, flags |-> NoFlags, env |-> NoEnv, benv |-> NoBreakEnv,
     uncomment |-> uncomment, document |-> document, ienv |-> ienv]

\* the state after Init has returned
ReturnInit(c, res) ==
    Return(c, [err |-> res.err, fds |-> <<>>, out |-> res.out, events |-> res.events],
           res.fs)

\* a call of Runner.Init
InitCmd ==
    /\ phase = "ready"
    /\ \E args \in InitArgs, uncomment \in BOOLEAN, document \in BOOLEAN,
          generateOK \in BOOLEAN, writeFileOK \in BOOLEAN :
         ReturnInit(InitCall(args, uncomment, document, InitEnv(generateOK, writeFileOK)),
                    runnerInit(r, fs, args, uncomment, document,
                               InitEnv(generateOK, writeFileOK)))

\* the processes that generate a configuration file
NextInit ==
    \/ getRunnerPackages
    \/ InitCmd
    \/ Exit

SpecInit == Init /\ [][NextInit]_vars

\* a .proto file of the tree: the directory that holds it and what protoc
\* compiles it to
SourceFile(dirPath, fd) == [dir |-> dirPath, fd |-> fd]

\* the .proto files of the work tree: f in the work directory imports a;
\* a and b are in s, and a imports d and the well-known t; d is in s/g and
\* imports the well-known x
SourceTree ==
    { SourceFile(<<"/", "w">>, FileDescriptor(<<"f">>, PkgFoo, <<<<"a">>>>, "1")),
      SourceFile(<<"/", "w", "/", "s">>,
                 FileDescriptor(<<"a">>, PkgBar, <<<<"d">>, <<"t">>>>, "1")),
      SourceFile(<<"/", "w", "/", "s">>, FileDescriptor(<<"b">>, PkgBar, <<>>, "1")),
      SourceFile(<<"/", "w", "/", "s", "/", "g">>,
                 FileDescriptor(<<"d">>, PkgBaz, <<<<"x">>>>, "1")) }

\* the well-known files on the include path: t imports x
WellKnownFiles ==
    { FileDescriptor(<<"t">>, PkgDefault, <<<<"x">>>>, "1"),
      FileDescriptor(<<"x">>, PkgDefault, <<>>, "1") }

\* the compiled file of a name
compiledFile(name) ==
    CHOOSE fd \in {s.fd : s \in SourceTree} \cup WellKnownFiles : fd.name = name

\* is the directory p the directory d or below it
InDir(p, d) == d = <<"/">> \/ Under(p, d)

\* the directory groups the provider resolves for a directory: the
\* directories of the tree in it or below it that hold .proto files
groupDirs(dirPath) ==
    SortStrings({s.dir : s \in {x \in SourceTree : InDir(x.dir, dirPath)}})

\* the names of files and of the files they import
withImports(names) ==
    names \cup UNION {Range(compiledFile(n).dependency) : n \in names}

\* the names of files and of all the files they import, directly or not
RECURSIVE importClosure(_)
importClosure(names) ==
    IF withImports(names) = names THEN names ELSE importClosure(withImports(names))

\* the names of the files of a directory
namesIn(dirPath) == {s.fd.name : s \in {x \in SourceTree : x.dir = dirPath}}

\* the descriptor set protoc writes for one directory group: the files of
\* the group, with --include_imports all the files they import as well
protocDescriptorSet(dirPath, includeImports) ==
    [i \in 1..Cardinality(IF includeImports THEN importClosure(namesIn(dirPath))
                          ELSE namesIn(dirPath)) |->
        compiledFile(SortStrings(IF includeImports THEN importClosure(namesIn(dirPath))
                                 ELSE namesIn(dirPath))[i])]

\* the compiler was built to include the imports
importsAsked(evs) ==
    \E i \in EventsNamed(evs, "newCompiler") : "a" \in Range(evs[i].p)

\* the result of a DescriptorSet with the descriptor set it emitted: the
\* merge of what protoc wrote for the groups dirs
descriptorSetEmitted(res, dirs) ==
    IF res.err = "nil"
    THEN [res EXCEPT !.fds = MergeFileDescriptorSets(
                                 [i \in 1..Len(dirs) |->
                                     protocDescriptorSet(dirs[i],
                                                         importsAsked(res.events))]).file]
    ELSE [res EXCEPT !.fds = <<>>]

\* the directory groups of the target of a command
targetGroupDirs(rr, fsx, args) ==
    IF getMeta(rr, fsx, args, GetForDir(0, Walk(1, TRUE, 1))).err = "nil"
    THEN groupDirs(AbsClean(getMeta(rr, fsx, args, GetForDir(0, Walk(1, TRUE, 1)))
                                .meta.ProtoSet.DirPath))
    ELSE <<>>

\* the environment of a compile of the groups dirs: the provider resolves
\* them (a directory without .proto files is an error), protoc ends as runs
TreeEnv(dirs, runs) ==
    Env(GetForDir(0, Walk(1, Len(dirs) > 0, Len(dirs))), runs, NoCommands, TRUE)

\* a call of Runner.DescriptorSet on the work tree
DescriptorSetTreeCmd ==
    /\ phase = "ready"
    /\ \E args \in TargetArgs, flags \in DescriptorSetFlags :
         \E runs \in RunsOf(Len(targetGroupDirs(r, fs, args))) :
           Return(Call("DescriptorSet", args, flags,
                       TreeEnv(targetGroupDirs(r, fs, args), runs), NoBreakEnv),
                  descriptorSetEmitted(
                      DescriptorSet(r, fs, args, flags.includeImports,
                                    flags.includeSourceInfo, flags.outputPath, flags.tmp,
                                    TreeEnv(targetGroupDirs(r, fs, args), runs),
                                    r.outputOK),
                      targetGroupDirs(r, fs, args)),
                  fs)

\* the processes that emit the descriptor set of the work tree
NextTree ==
    \/ getRunnerDescriptorSet
    \/ DescriptorSetTreeCmd
    \/ Exit

SpecTree == Init /\ [][NextTree]_vars

\* ---------------------------------------------------------------- properties

\* a command has returned
Done == phase = "done"

\* the target of the command that has returned
Target == fileOrDirOf(call.args)

\* what the target is in the tree the process started with
TargetKind == KindAt(InitialFs, Abs(Target))

\* the command made a call named `name`
Called(name) == EventsNamed(events, name) # {}

\* the failures the compiler returned under env: none when it was not run
\* or when a group ended with a hard error
CompilerFailures(env) ==
    IF \E i \in 1..Len(env.runs) : env.runs[i].err THEN <<>>
    ELSE ConcatFailures(env.runs)

\* the commands that compile and print through doCompile only
PrintingOps == {"Compile", "Gen", "All", "DescriptorSet", "InspectPackages"}

\* the error format of the runner can be parsed
FormatOK == ParseColonSeparatedFailureFields(r.errorFormat).err = "nil"

\* the line printed for a failure by the runner of the process
LineOf(f) ==
    printedLine(r, f, ParseColonSeparatedFailureFields(r.errorFormat).fields)

\* the failure passes the single-file filter of the command's target
Passing(f) ==
    \/ TargetKind = "dir"
    \/ f.Filename = Target
    \/ AbsClean(f.Filename) = AbsClean(Target)

\* a compile command compiled, got diagnostics only, and printed them
PrintedFailures ==
    /\ Done
    /\ call.op \in PrintingOps
    /\ Called("Compile")
    /\ \A i \in 1..Len(call.env.runs) : ~call.env.runs[i].err
    /\ ret.err \in {"nil", "exit255"}

\* the failure lines the command printed: all of its output when it ended
\* with exit code 255, none when it ended without error
FailureLines == IF ret.err = "exit255" THEN out ELSE <<>>

\* the permutations of 1..n
Perms(n) == {q \in [1..n -> 1..n] : \A i, j \in 1..n : q[i] = q[j] => i = j}

\* the command of the process, run again in an environment env
RunOp(env) ==
    CASE call.op = "Compile" ->
            Compile(r, fs, call.args, call.flags.dryRun, env, r.outputOK)
      [] call.op = "Gen" ->
            Gen(r, fs, call.args, call.flags.dryRun, env, r.outputOK)
      [] call.op = "All" -> All(r, fs, call.args, env, r.outputOK)
      [] call.op = "DescriptorSet" ->
            DescriptorSet(r, fs, call.args, call.flags.includeImports,
                          call.flags.includeSourceInfo, call.flags.outputPath,
                          call.flags.tmp, env, r.outputOK)
      [] call.op = "InspectPackages" ->
            InspectPackages(r, fs, call.args, env, r.outputOK)

\* C1: BreakCheck called with both a git branch and a descriptor set path
\* returns an input error with exit code 255 and does nothing else: it
\* resolves no target, compiles nothing, clones nothing, prints no failure
\* and leaves the file system as it was.
C1_ConflictingFlagsRejected ==
    (Done /\ call.op = "BreakCheck"
          /\ call.flags.gitBranch # <<>> /\ call.flags.descriptorSetPath # <<>>)
        => /\ ExitCodeOf(ret.err) = 255
           /\ events = <<>>
           /\ out = <<>>
           /\ fs = InitialFs

\* BreakCheck has returned from a call with both flags and an existing target
C1_Witness ==
    /\ Done /\ call.op = "BreakCheck"
    /\ call.flags.gitBranch = <<"b">> /\ call.flags.descriptorSetPath = <<"g">>
    /\ call.args = <<PathS>>
    /\ ret.err = "input255"

\* C2: in git-reference mode, for a target that is an absolute path or whose
\* cleaned absolute path lies outside the tree of the work directory,
\* BreakCheck returns an error and git.TemporaryClone is never called.
C2_OutOfTreeTargetNeverCloned ==
    (Done /\ call.op = "BreakCheck" /\ call.flags.descriptorSetPath = <<>>
          /\ (IsAbs(Target) \/ ~Under(AbsClean(Target), AbsClean(r.workDirPath))))
        => /\ ret.err # "nil"
           /\ ~Called("TemporaryClone")

\* C3: when BreakCheck returns an input error (conflicting flags, an
\* absolute or an out-of-tree target in git-reference mode), it has resolved
\* no workspace and invoked no compiler during the call.
C3_InputErrorBeforeAnyWork ==
    (Done /\ call.op = "BreakCheck"
          /\ ret.err \in {"input255", "not-relative", "not-within"})
        => /\ ~Called("GetForDir")
           /\ ~Called("Compile")
           /\ ~Called("protoc")

\* C4: in git-reference mode, once git.TemporaryClone has returned a clone
\* directory, BreakCheck removes it before it returns, whatever it returns:
\* the removal is the last thing it does and nothing is left of the clone.
C4_CloneRemovedOnEveryExit ==
    (Done /\ call.op = "BreakCheck" /\ Called("Cloned"))
        => /\ events[Len(events)] = Event("RemoveAll", CloneDir)
           /\ \A p \in DOMAIN fs : Under(p, CloneDir) => fs[p] = "none"
           /\ fs = InitialFs

\* BreakCheck has returned the error of the compiler run on the clone
C4_Witness ==
    /\ Done /\ call.op = "BreakCheck" /\ Called("Cloned")
    /\ ret.err = "compile-error"
    /\ \E i \in 1..Len(call.benv.from.runs) : call.benv.from.runs[i].err
    /\ fs[CloneDir] = "none"

\* the commands that compile
CompileOps == PrintingOps \cup {"BreakCheck"}

\* a compile of the command returned at least one failure
SomeCompilerFailure ==
    /\ Done
    /\ call.op \in CompileOps
    /\ Called("Compile")
    /\ CompilerFailures(call.env) \o CompilerFailures(call.benv.from) # <<>>

\* C5 (as stated): for any compile-based operation, if the compiler result
\* contains at least one failure, the operation returns exit code 255 and
\* no descriptor sets.
C5_FailuresExit255 ==
    SomeCompilerFailure => (ExitCodeOf(ret.err) = 255 /\ ret.fds = <<>>)

\* C5 (amended): for any compile-based operation, if the compiler result
\* contains at least one failure, the operation returns an error and no
\* descriptor sets (nothing is compared, nothing is written to a file),
\* in single-file mode as well and whatever the filter let through.  The
\* error is exit code 255 when the failures could be printed; when the error
\* format cannot be parsed or the output rejects the write, it is that error.
C5_FailuresFailTheOperation ==
    SomeCompilerFailure
        => /\ ret.err \in {"exit255", "parse-format", "write"}
           /\ (FormatOK /\ r.outputOK) => ret.err = "exit255"
           /\ ret.err = "parse-format" => ~FormatOK
           /\ ret.err = "write" => ~r.outputOK
           /\ ret.fds = <<>>
           /\ ~Called("BreakingRun")
           /\ ~Called("WriteFile")

\* a compile of one file whose only failure is about another file, so that
\* nothing is printed, and exit code 255 all the same
C5_Witness ==
    /\ Done /\ call.op = "Compile" /\ call.args = <<PathF>>
    /\ call.env.runs = <<[err |-> FALSE, failures |-> <<FailureC>>]>>
    /\ out = <<>>
    /\ ret.err = "exit255"

\* C6: when the target is a regular file, the proto set is resolved over the
\* directory of the file and SingleFilename is the target; a failure of the
\* compile is then printed if and only if its filename equals the target or
\* the cleaned absolute paths of the two are equal.  When the target is a
\* directory, SingleFilename is empty and every failure is printed.
C6_SingleFileFilter ==
    PrintedFailures
        => /\ TargetKind = "file"
                => /\ Event("GetForDir", Dir(Target)) \in Range(events)
                   /\ getMeta(r, fs, call.args, call.env.prov).meta.SingleFilename
                         = Target
           /\ TargetKind = "dir"
                => /\ Event("GetForDir", Target) \in Range(events)
                   /\ getMeta(r, fs, call.args, call.env.prov).meta.SingleFilename
                         = <<>>
           /\ \A f \in FailurePool :
                 LineOf(f) \in Range(FailureLines)
                    <=> (f \in Range(CompilerFailures(call.env)) /\ Passing(f))
           /\ Cardinality({i \in 1..Len(CompilerFailures(call.env)) :
                              Passing(CompilerFailures(call.env)[i])})
                 = Len(FailureLines)

\* a compile of the file f with two failures: one names the file by its
\* absolute path and is printed, the other is about another file and is not
C6_Witness ==
    /\ Done /\ call.op = "Compile" /\ call.args = <<PathF>>
    /\ Range(CompilerFailures(call.env)) = {FailureB, FailureC}
    /\ FormatOK /\ r.outputOK
    /\ out = <<LineOf(FailureB)>>
    /\ ret.err = "exit255"

\* the sequence is ordered by (filename, line, column, message)
Ordered(fseq) ==
    \A i, j \in 1..Len(fseq) : i < j => ~FailureLess(fseq[j], fseq[i])

\* C7: the failures one operation prints are ordered by (filename, line,
\* column, message), and the output is the same for every order in which
\* the directory groups were compiled.
C7_SortedAndOrderIndependent ==
    PrintedFailures
        => /\ \E q \in Perms(Len(CompilerFailures(call.env))) :
                 /\ Ordered([i \in DOMAIN q |-> CompilerFailures(call.env)[q[i]]])
                 /\ FailureLines
                       = SelectSeq([i \in DOMAIN q |->
                                       IF Passing(CompilerFailures(call.env)[q[i]])
                                       THEN LineOf(CompilerFailures(call.env)[q[i]])
                                       ELSE <<>>],
                                   LAMBDA l : l # <<>>)
           /\ \A q \in Perms(Len(call.env.runs)) :
                 LET again == RunOp([call.env EXCEPT
                                        !.runs = [i \in DOMAIN q |-> @[q[i]]]])
                 IN  again.out = out /\ again.err = ret.err

\* a compile of a directory whose groups finished in the order that is not
\* the sorted one: the failure of the second group is printed first
C7_Witness ==
    /\ Done /\ call.op = "Compile" /\ call.args = <<PathS>>
    /\ CompilerFailures(call.env) = <<FailureA, FailureB>>
    /\ FormatOK /\ r.outputOK
    /\ out = <<LineOf(FailureB), LineOf(FailureA)>>

\* C8: compilation does not stop at the first diagnostic: every directory
\* group is compiled, and when groups report failures, the failures of all
\* of them are printed before the operation returns exit code 255.
C8_EveryGroupCompiled ==
    (Done /\ call.op \in PrintingOps /\ Called("Compile"))
        => /\ Cardinality(EventsNamed(events, "protoc")) = call.env.prov.n
           /\ Len(call.env.runs) = call.env.prov.n
           /\ (PrintedFailures /\ TargetKind = "dir")
                 => /\ Len(out) >= Len(CompilerFailures(call.env))
                    /\ \A i \in 1..Len(call.env.runs) :
                          \A f \in Range(call.env.runs[i].failures) :
                             LineOf(f) \in Range(out)
                    /\ CompilerFailures(call.env) # <<>> => ret.err = "exit255"

\* a compile of a directory of two groups, each with its own failure: both
\* groups ran and both failures are printed
C8_Witness ==
    /\ Done /\ call.op = "All" /\ call.args = <<PathS>>
    /\ call.env.prov.n = 2
    /\ call.env.runs[1].failures = <<FailureC>>
    /\ call.env.runs[2].failures = <<FailureA>>
    /\ FormatOK /\ r.outputOK
    /\ Range(out) = {LineOf(FailureA), LineOf(FailureC)}
    /\ ret.err = "exit255"

\* the compiler options of the command asked for no descriptor set
NoDescriptorSetOption(evs) ==
    \A i \in EventsNamed(evs, "newCompiler") :
        "s" \notin Range(evs[i].p) /\ "c" \notin Range(evs[i].p)

\* C9: with dryRun set, Compile and Gen never call compiler.Compile; they
\* ask ProtocCommands for the command lines and print each non-empty one on
\* its own line, in the order returned; no descriptor set is asked for,
\* even by a caller of compile that wants one.
C9_DryRunOnlyPrintsCommands ==
    (Done /\ call.op \in {"Compile", "Gen"} /\ call.flags.dryRun)
        => /\ ~Called("Compile")
           /\ ~Called("protoc")
           /\ ret.fds = <<>>
           /\ NoDescriptorSetOption(events)
           /\ Called("newCompiler") => Called("ProtocCommands")
           /\ (Called("ProtocCommands") /\ ~call.env.cmds.err /\ r.outputOK)
                 => /\ out = SelectSeq(call.env.cmds.commands, LAMBDA l : l # <<>>)
                    /\ ret.err = "nil"
           /\ Called("ProtocCommands")
                 => \A doGen \in BOOLEAN :
                       /\ NoDescriptorSetOption(
                              compile(r, doGen, TRUE, TRUE,
                                      getMeta(r, fs, call.args, call.env.prov).meta,
                                      call.env, r.outputOK).events)
                       /\ compile(r, doGen, TRUE, TRUE,
                                  getMeta(r, fs, call.args, call.env.prov).meta,
                                  call.env, r.outputOK).fds = <<>>

\* a dry run of generate over two groups, the second with no command line:
\* one line is printed and the compiler is not run
C9_Witness ==
    /\ Done /\ call.op = "Gen" /\ call.flags.dryRun
    /\ call.env.cmds.commands = << <<"c">>, <<>> >>
    /\ r.outputOK
    /\ out = << <<"c">> >>
    /\ Called("ProtocCommands")
    /\ ret.err = "nil"

\* the command resolves its target (it did not stop at its flags)
ResolvesTarget ==
    /\ Done
    /\ call.op \in CompileOps
    /\ ret.err # "input255"

\* C10: resolving a target that does not exist fails with a not-found
\* error, and resolving one that is neither a regular file nor a directory
\* fails with an invalid-target error; in both cases the proto set provider
\* is not called, nothing is compiled and no meta is returned.
C10_BadTargetRejected ==
    (ResolvesTarget /\ TargetKind \in {"none", "other"})
        => /\ TargetKind = "none" => ret.err = "not-found"
           /\ TargetKind = "other" => ret.err = "invalid-target"
           /\ ~Called("GetForDir")
           /\ ~Called("newCompiler")
           /\ ~Called("Compile")
           /\ getMeta(r, fs, call.args, call.env.prov).meta = Meta(NoProtoSet, <<>>)
           /\ ret.fds = <<>>
           /\ out = <<>>

\* a compile of the device d has returned the invalid-target error
C10_Witness ==
    /\ Done /\ call.op = "Compile" /\ call.args = <<PathDev>>
    /\ Called("Stat")
    /\ ret.err = "invalid-target"

\* the places of the resolutions (GetForDir) among the calls of the command
Resolutions == EventsNamed(events, "GetForDir")

\* the answer of the provider to the resolution at place i: the first is
\* that of the command's target, the second that of the clone
ResolutionAt(i) ==
    IF Cardinality({j \in Resolutions : j <= i}) = 1 THEN call.env.prov
    ELSE call.benv.from.prov

\* the walk of the resolution at place i took longer than the walk timeout
WalkTimedOut(i) ==
    /\ r.protoSetProvider.walkTimeout > 0
    /\ ResolutionAt(i).took > r.protoSetProvider.walkTimeout

\* the calls that work on a resolved proto set
ProtoSetCalls ==
    {"newCompiler", "Compile", "ProtocCommands", "protoc", "BreakingRun", "WriteFile"}

\* C11: when the walk of a resolution takes longer than the walk timeout of
\* the command line, the command ends with the timeout error, returns no
\* descriptor sets, and makes no call that works on a proto set after that
\* resolution: nothing is compiled from a partly walked tree.
C11_WalkTimeoutEndsResolution ==
    Done =>
      \A i \in Resolutions :
        WalkTimedOut(i)
          => /\ ret.err = "timeout"
             /\ ret.fds = <<>>
             /\ \A j \in (i + 1)..Len(events) : events[j].e \notin ProtoSetCalls

C11_Witness ==
    /\ Done
    /\ call.op = "Compile"
    /\ Resolutions # {}
    /\ \A i \in Resolutions : WalkTimedOut(i)
    /\ ret.err = "timeout"
    /\ r.walkTimeout = 1

\* C12: the cache path, the protoc binary path and the well-known types
\* path of the runner are each the flag of the command line when it is set;
\* else the environment variable of that override when it is set; else
\* empty. A flag that is set is never replaced by an environment variable.
C12_FlagThenEnvironment ==
    phase \in {"ready", "done"} =>
      /\ cmdFlags.cachePath # <<>> => r.cachePath = cmdFlags.cachePath
      /\ cmdFlags.protocBinPath # <<>> => r.protocBinPath = cmdFlags.protocBinPath
      /\ cmdFlags.protocWKTPath # <<>> => r.protocWKTPath = cmdFlags.protocWKTPath
      /\ cmdFlags.cachePath = <<>> => r.cachePath = environ.PROTOTOOL_CACHE_PATH
      /\ cmdFlags.protocBinPath = <<>>
            => r.protocBinPath = environ.PROTOTOOL_PROTOC_BIN_PATH
      /\ cmdFlags.protocWKTPath = <<>>
            => r.protocWKTPath = environ.PROTOTOOL_PROTOC_WKT_PATH

C12_Witness ==
    /\ phase = "ready"
    /\ cmdFlags.cachePath = FlagCachePath
    /\ environ.PROTOTOOL_CACHE_PATH = EnvCachePath
    /\ cmdFlags.protocBinPath = <<>>
    /\ environ.PROTOTOOL_PROTOC_BIN_PATH = EnvBinPath
    /\ cmdFlags.protocWKTPath = <<>>
    /\ environ.PROTOTOOL_PROTOC_WKT_PATH = <<>>
    /\ r.cachePath = FlagCachePath
    /\ r.protocBinPath = EnvBinPath
    /\ r.protocWKTPath = <<>>

\* a cache delete command returns in this step
CacheDeleteReturns ==
    /\ phase = "ready"
    /\ phase' = "done"
    /\ call'.op = "CacheDelete"

\* C13: cache delete removes everything the default cache root holds; when a
\* cache path is in effect it returns without error and leaves every cache
\* root, the custom one with what it holds included, as it was.
C13_DeleteRemovesDefaultRootOnly ==
    [][CacheDeleteReturns
         => IF r.cachePath = <<>>
            THEN /\ cache'[DefaultCacheRoot] = {}
                 /\ \A root \in CacheRoots \ {DefaultCacheRoot} : cache'[root] = cache[root]
            ELSE /\ ret'.err = "nil"
                 /\ cache' = cache]_vars

\* the cache entry of the version the concurrent callers download
Entry == cache[DownloadRoot]

\* the files of a fully extracted cache entry
ExtractedFiles == {VersionDir, ProtocBin, ProtocInclude}

\* every concurrent caller has returned from a Download
AllReturned == \A c \in Callers : callers[c].pc = "done"

\* where a Download is while it fetches, extracts or writes the marker
MutatingPcs == {"fetch", "extractBin", "extractInclude", "mark"}

\* where a Download is while it holds the lock
LockedPcs == {"recheck"} \cup MutatingPcs \cup {"release"}

\* C14: of the two concurrent callers of Download for one version and cache
\* root, however their steps interleave, at most one ever completes an
\* extraction; and when both have returned and no Download failed or was
\* terminated, exactly one fetch and one extraction were made, both calls
\* returned without error the same ready path, and the entry is ready.
C14_OneDownloadForConcurrentCallers ==
    /\ hist.extractions <= 1
    /\ (AllReturned /\ hist.failures = 0)
         => /\ hist.fetches = 1
            /\ hist.extractions = 1
            /\ \A c \in Callers :
                  callers[c].err = "nil" /\ callers[c].path = readyPath(DownloadRoot)
            /\ ExtractedFiles \cup {ReadyMarker} \subseteq Entry

C14_Witness ==
    /\ AllReturned
    /\ hist.failures = 0
    /\ \A c \in Callers : callers[c].calls = 1 /\ callers[c].locked
    /\ hist.fetches = 1

\* C15: the ready marker of the entry exists only when an extraction was
\* completed and every extracted file is in place; it is written after the
\* last file; while every Download so far failed or was terminated there is
\* no marker; and a Download that returns without error leaves it written.
C15_ReadyMarkerOnlyAfterFullExtraction ==
    /\ ReadyMarker \in Entry => (ExtractedFiles \subseteq Entry /\ hist.extractions >= 1)
    /\ \A c \in Callers :
          /\ callers[c].pc = "mark" => ExtractedFiles \subseteq Entry
          /\ (callers[c].pc = "done" /\ callers[c].err = "nil") => ReadyMarker \in Entry

C15_Witness ==
    /\ hist.failures >= 1
    /\ ReadyMarker \in Entry
    /\ \E c \in Callers :
          callers[c].calls = 2 /\ callers[c].pc = "done" /\ callers[c].err = "nil"
             /\ callers[c].locked

\* C16: a caller holds the lock of the version exactly while its Download is
\* between the second look for the marker and the release: whoever fetches,
\* extracts or writes the marker holds it, so at most one caller does; and
\* a caller that has returned, with or without error, or whose process was
\* terminated, does not hold it, so the lock is free for a later Download.
C16_LockHeldWhileMutating ==
    /\ \A c \in Callers : (callers[c].pc \in LockedPcs) <=> (lock = c)
    /\ Cardinality({c \in Callers : callers[c].pc \in MutatingPcs}) <= 1
    /\ (\A c \in Callers : callers[c].pc \in {"idle", "done"}) => lock = "free"

C16_Witness ==
    /\ lock = "free"
    /\ hist.failures >= 1
    /\ \E c \in Callers :
          callers[c].pc = "done" /\ callers[c].err \in {"download", "extract"}
             /\ callers[c].locked
    /\ \E c \in Callers :
          callers[c].pc = "done" /\ callers[c].err = "nil" /\ callers[c].locked

\* C17: while the ready marker is there, a step of a Download leaves the
\* cache as it is and fetches and extracts nothing; a Download that begins
\* returns the ready path at once, without error and without the lock; and
\* a Download that has taken the lock and looks again goes to the release.
C17_ReadyEntryIsNotDownloadedAgain ==
    [][\A c \in Callers :
         (/\ ReadyMarker \in Entry
          /\ callers'[c] # callers[c]
          /\ callers'[c].pc # "check"
          /\ callers'[c].err # "killed")
           => /\ cache' = cache
              /\ hist' = hist
              /\ callers[c].pc = "check"
                   => /\ callers'[c].pc = "done"
                      /\ callers'[c].err = "nil"
                      /\ callers'[c].path = readyPath(DownloadRoot)
                      /\ ~callers'[c].locked
                      /\ lock' = lock
              /\ callers[c].pc = "recheck" => callers'[c].pc = "release"]_vars

C17_Witness ==
    /\ hist.fetches = 1
    /\ hist.failures = 0
    /\ \E c \in Callers :
          /\ callers[c].calls = 2 /\ callers[c].pc = "done" /\ callers[c].err = "nil"
          /\ ~callers[c].locked
          /\ callers[c].path = readyPath(DownloadRoot)
    /\ \E c \in Callers :
          /\ callers[c].calls = 1 /\ callers[c].pc = "release" /\ callers[c].rechecked

\* a listing of package names has returned
PackageOps == {"InspectPackages", "InspectPackageDeps", "InspectPackageImporters"}

\* a command whose compile wrote descriptor sets has returned
PackagesDone == Done /\ call.op \in PackageOps \cup {"DescriptorSet"} /\ "descs" \in DOMAIN call

\* the package set of the descriptor sets of the command that has returned
CallPackageSet == NewPackageSet(call.descs)

\* the map whose names a listing of the package set lists
ListedMapOf(packageSet) ==
    IF call.op = "InspectPackages" THEN PackageNameToPackage(packageSet)
    ELSE IF call.op = "InspectPackageDeps"
    THEN DependencyNameToDependency(packageSet, packageSet.packages[call.name])
    ELSE ImporterNameToImporter(packageSet, packageSet.packages[call.name])

\* the map whose names the command that has returned lists
ListedMap == ListedMapOf(CallPackageSet)

\* C18: every listing of package names (inspect packages, package-deps,
\* package-importers) that returns without error has printed each name of the
\* map it was given that is not empty exactly once, in lexicographic order,
\* and has not printed the unnamed default package.
C18_ListingSortedWithoutDefault ==
    (PackagesDone /\ call.op \in PackageOps /\ ret.err = "nil")
        => LET names == DOMAIN ListedMap \ {<<>>}
           IN /\ Range(out) = names
              /\ Len(out) = Cardinality(names)
              /\ \A i \in 1..(Len(out) - 1) : StrLess(out[i], out[i + 1])
              /\ \A i \in 1..Len(out) : out[i] # <<>>

C18_Witness ==
    /\ PackagesDone
    /\ call.op = "InspectPackageDeps"
    /\ call.name = PkgFoo
    /\ ret.err = "nil"
    /\ PkgDefault \in DOMAIN ListedMap
    /\ out = <<PkgBar, PkgBaz>>

\* the files of descriptor sets
AllFiles(sets) == UNION {Range(sets[i]) : i \in 1..Len(sets)}

\* some file of the package p imports some file that the package q declares
Imports(files, p, q) ==
    \E f \in files, g \in files :
        /\ f.package = p
        /\ g.package = q
        /\ g.name \in Range(f.dependency)

\* C19: in a package set that was built, for all packages P and Q, Q is a
\* dependency of P if and only if P is an importer of Q, which is so exactly
\* when P and Q differ and some file of P imports some file declared in Q; no
\* package is among its own dependencies or importers; and package-deps and
\* package-importers list these packages.
C19_DependenciesMirrorImporters ==
    (PackagesDone /\ CallPackageSet.err = "nil")
        => LET packages == CallPackageSet.packages
               files == AllFiles(call.descs)
           IN /\ DOMAIN packages = {f.package : f \in files}
              /\ \A p \in DOMAIN packages, q \in DOMAIN packages :
                    /\ q \in packages[p].deps <=> p \in packages[q].importers
                    /\ q \in packages[p].deps <=> (p # q /\ Imports(files, p, q))
              /\ \A p \in DOMAIN packages :
                    /\ p \notin packages[p].deps
                    /\ p \notin packages[p].importers
                    /\ packages[p].deps \subseteq DOMAIN packages
                    /\ packages[p].importers \subseteq DOMAIN packages
              /\ (call.op = "InspectPackageDeps" /\ ret.err = "nil")
                    => Range(out) = {q \in DOMAIN packages \ {<<>>} :
                                        q # call.name /\ Imports(files, call.name, q)}
              /\ (call.op = "InspectPackageImporters" /\ ret.err = "nil")
                    => Range(out) = {p \in DOMAIN packages \ {<<>>} :
                                        p # call.name /\ Imports(files, p, call.name)}

C19_Witness ==
    /\ PackagesDone
    /\ call.op = "InspectPackageImporters"
    /\ call.name = PkgBar
    /\ ret.err = "nil"
    /\ out = <<PkgBaz, PkgFoo>>
    /\ Imports(AllFiles(call.descs), PkgFoo, PkgFoo)
    /\ PkgBar \in CallPackageSet.packages[PkgFoo].deps

\* descriptor sets hold two files of one name whose contents differ
Conflicting(sets) ==
    \E f \in AllFiles(sets), g \in AllFiles(sets) : f.name = g.name /\ f # g

\* the calls that wrote a file
Written == EventsNamed(events, "WriteFile")

\* C20: the merge of descriptor sets is idempotent and detects conflicts:
\* merging a set with itself, or sets that hold files of one name and one
\* content, gives the same files with each name once; merging sets that
\* hold files of one name and different contents is always an error, and
\* then the descriptor set or the package set is not built and nothing is
\* written.
C20_MergeIdempotentAndConflictDetecting ==
    PackagesDone
        => LET merged == MergeFileDescriptorSets(call.descs)
           IN /\ Conflicting(call.descs) <=> merged.err # "nil"
              /\ merged.err = "nil"
                    => /\ Range(merged.file) = AllFiles(call.descs)
                       /\ \A i \in 1..Len(merged.file), j \in 1..Len(merged.file) :
                             merged.file[i].name = merged.file[j].name => i = j
                       /\ MergeFileDescriptorSets(call.descs \o call.descs) = merged
                       /\ MergeFileDescriptorSets(<<merged.file, merged.file>>) = merged
                       /\ MergeFileDescriptorSets(<<merged.file>>) = merged
              /\ \A i \in 1..Len(call.descs) :
                    /\ MergeFileDescriptorSets(<<call.descs[i], call.descs[i]>>).err = "nil"
                    /\ Range(MergeFileDescriptorSets(<<call.descs[i], call.descs[i]>>).file)
                          = Range(call.descs[i])
              /\ Conflicting(call.descs)
                    => /\ ret.err = IF call.op = "DescriptorSet" THEN "merge"
                                    ELSE "package-set"
                       /\ out = <<>>
                       /\ Written = {}

C20_Witness ==
    /\ PackagesDone
    /\ call.op = "DescriptorSet"
    /\ call.flags.outputPath # <<>>
    /\ Conflicting(call.descs)
    /\ ret.err = "merge"
    /\ Written = {}

\* BreakCheck has returned after the breaking runner returned without error
BreakingRan ==
    /\ Done
    /\ call.op = "BreakCheck"
    /\ Called("BreakingRun")
    /\ ~call.benv.brk.err

\* the findings of the breaking runner
Findings == call.benv.brk.failures

\* the lines of the findings in the field format "message", sorted
FindingLines ==
    [i \in 1..Len(Findings) |-> FailureLine(SortFailures(Findings)[i], <<"message">>)]

\* the lines printed for the findings: JSON objects when the runner prints
\* JSON
FindingsPrinted ==
    [i \in 1..Len(Findings) |->
        IF r.json THEN FailureJSON(SortFailures(Findings)[i]) ELSE FindingLines[i]]

ToResult == getPackageSetAndConfig(r, fs, call.args, call.benv.to, r.outputOK)

\* the steps BreakCheck takes for the package set to compare with, and the
\* comparison
FromSteps == {"ReadFile", "TemporaryClone", "Cloned", "RemoveAll", "BreakingRun"}

\* C27: BreakCheck resolves and compiles the current tree before it obtains
\* the package set to compare with: every read of a descriptor file, every
\* clone and every run of the breaking runner comes after the compile of the
\* current tree, and when resolving or compiling the current tree fails
\* (exit code 255 on diagnostics included) BreakCheck returns that error and
\* no descriptor file is read, no clone is made and the breaking runner is
\* not run.
C27_CurrentTreeFirst ==
    (Done /\ call.op = "BreakCheck" /\ ~conflictingFlags(call.flags.gitBranch,
                                                         call.flags.descriptorSetPath))
        => /\ \A i \in 1..Len(events) :
                 events[i].e \in FromSteps
                    => /\ ToResult.err = "nil"
                       /\ i > Len(ToResult.events)
           /\ SubSeq(events, 1, Len(ToResult.events)) = ToResult.events
           /\ ToResult.err # "nil"
                 => /\ ret.err = ToResult.err
                    /\ events = ToResult.events
                    /\ out = ToResult.out

C27_Witness ==
    /\ Done
    /\ call.op = "BreakCheck"
    /\ call.flags.gitBranch # <<>>
    /\ Called("Compile")
    /\ ToResult.err = "exit255"
    /\ ret.err = "exit255"
    /\ ~Called("TemporaryClone")

\* a command has returned whose compiler compiled every group without a
\* hard error
Compiled ==
    /\ Done
    /\ call.op \in CompileOps
    /\ Called("Compile")
    /\ \A i \in 1..Len(call.env.runs) : ~call.env.runs[i].err

\* C29: the error format is parsed on every compile, with or without
\* failures: when the error format of the runner does not parse, a command
\* whose compiler has compiled returns the parse error, has printed nothing
\* and holds no descriptor sets, whether the compiler reported failures or
\* none; exit code 255 and the descriptor sets are reached only when the
\* format parses.
C29_FormatParsedOnEveryCompile ==
    Compiled
        => /\ ~FormatOK
                 => /\ ret.err = ParseColonSeparatedFailureFields(r.errorFormat).err
                    /\ ExitCodeOf(ret.err) = 1
                    /\ out = <<>>
                    /\ ret.fds = <<>>
                    /\ events[Len(events)].e \in {"Compile", "protoc"}
           /\ (ret.err \in {"nil", "exit255"} \/ ret.fds # <<>>) => FormatOK

C29_Witness ==
    /\ Compiled
    /\ call.op = "DescriptorSet"
    /\ ~FormatOK
    /\ Len(call.env.runs) = 2
    /\ CompilerFailures(call.env) = <<>>
    /\ ret.err = ParseColonSeparatedFailureFields(r.errorFormat).err

\* the command that has returned was given flags it rejects: DescriptorSet
\* an output path together with tmp, BreakDescriptorSet no output path
RejectedFlags ==
    /\ Done
    /\ \/ /\ call.op = "DescriptorSet"
          /\ call.flags.outputPath # <<>>
          /\ call.flags.tmp
       \/ /\ call.op = "BreakDescriptorSet"
          /\ call.flags.outputPath = <<>>

\* C25: DescriptorSet called with an output path and tmp, and
\* BreakDescriptorSet called without an output path, return exit code 255
\* before resolving or compiling anything, and write no file and no output.
C25_OutputFlagsRejectedFirst ==
    RejectedFlags
        => /\ ret.err = "input255"
           /\ ExitCodeOf(ret.err) = 255
           /\ events = <<>>
           /\ out = <<>>
           /\ ret.fds = <<>>
           /\ fs = InitialFs

C25_Witness ==
    /\ RejectedFlags
    /\ call.op = "BreakDescriptorSet"
    /\ call.args # <<>>
    /\ Stat(fs, fileOrDirOf(call.args)) = "dir"
    /\ r.outputOK
    /\ ret.err = "input255"
    /\ events = <<>>

\* newCompiler is to reject the options: both kinds of descriptor set, or
\* imports or source info without full control
RejectedOptions(doFileDescriptorSet, doFileDescriptorSetFullControl, includeImports, includeSourceInfo) ==
    \/ doFileDescriptorSet /\ doFileDescriptorSetFullControl
    \/ ~doFileDescriptorSetFullControl /\ (includeImports \/ includeSourceInfo)

\* the texts of the options of the compilers that newCompiler accepts
AcceptedOptionsTexts ==
    {OptionsText(newCompiler(x[1], x[2], x[3], x[4], x[5]).compiler) :
        x \in {y \in BOOLEAN \X BOOLEAN \X BOOLEAN \X BOOLEAN \X BOOLEAN :
                  ~RejectedOptions(y[2], y[3], y[4], y[5])}}

\* the options with which the commands ask for a compiler: compile asks
\* for no descriptor set on a dry run, and never for full control;
\* compileFullControl asks for full control only
OptionsAsked ==
    {<<x[1], descriptorSetOption(x[2], x[3]), FALSE, FALSE, FALSE>> :
        x \in BOOLEAN \X BOOLEAN \X BOOLEAN}
        \cup {<<FALSE, FALSE, TRUE, x[1], x[2]>> : x \in BOOLEAN \X BOOLEAN}

\* C28: newCompiler rejects the options that ask for both kinds of
\* descriptor set, or for imports or source info without full control, and
\* no command of the runner reaches newCompiler with such options: no command
\* returns the error of newCompiler, and every compiler that a command made
\* has accepted options.
C28_NoRejectedCompilerOptions ==
    /\ \A x \in BOOLEAN \X BOOLEAN \X BOOLEAN \X BOOLEAN \X BOOLEAN :
          (newCompiler(x[1], x[2], x[3], x[4], x[5]).err # "nil")
              <=> RejectedOptions(x[2], x[3], x[4], x[5])
    /\ \A x \in OptionsAsked : newCompiler(x[1], x[2], x[3], x[4], x[5]).err = "nil"
    /\ Done
          => /\ ret.err # "bad-options"
             /\ \A i \in EventsNamed(events, "newCompiler") :
                   events[i].p \in AcceptedOptionsTexts
             /\ Called("Compile") \/ Called("ProtocCommands") => Called("newCompiler")

C28_Witness ==
    /\ Done
    /\ call.op = "BreakDescriptorSet"
    /\ ret.err = "nil"
    /\ \E i \in EventsNamed(events, "newCompiler") :
          events[i].p = OptionsText(newCompiler(FALSE, FALSE, TRUE, TRUE, FALSE).compiler)

\* a BreakCheck that cloned the git branch has returned
CloneMade == Done /\ call.op = "BreakCheck" /\ Called("Cloned")

\* the step of the call after the clone was made
AfterCloned ==
    events[(CHOOSE i \in 1..Len(events) : events[i] = Event("Cloned", CloneDir)) + 1]

\* the directory the clone of the runner is asked about: the clone directory
\* for no target or ".", else the target joined to the clone directory
CloneTarget ==
    IF fileOrDirOf(call.args) \in {<<>>, PathDot}
    THEN CloneDir
    ELSE Join(CloneDir, fileOrDirOf(call.args))

\* the runner getRunner built is the runner after the call, and the clone is
\* asked about the target inside the clone directory
OriginalKeptAndCloneAsked ==
    /\ r = newRunner(Cwd, TRUE,
                     withDevelMode(getRunnerOptions(cmdFlags, environ), r.develMode).options)
    /\ AfterCloned = Event("Stat", CloneTarget)

DescriptorSetDone == Done /\ call.op = "DescriptorSet"

\* the file of the call was opened: it was asked for and could be created
FileOpened ==
    /\ Called("Create") \/ Called("TempFile")
    /\ call.env.io.createOK

\* the name of the file of the call
FileName == IF call.flags.tmp THEN TmpFile ELSE call.flags.outputPath

\* the steps of the call that are given the file name f, in order
FileSteps(f) == SelectSeq(events, LAMBDA ev : ev.p = f /\ ev.e # "Stat" /\ ev.e # "GetForDir")

\* the serialized descriptor sets were written to the file f and to nothing
\* else
WrittenToFileOnly(open, f) ==
    /\ FileSteps(f) = <<Event(open, f), Event("WriteFile", f), Event("Close", f)>>
    /\ EventsNamed(events, "FileData") # {}
    /\ \A i \in EventsNamed(events, "FileData") :
          events[i].p = descriptorData(r, ret.fds)
    /\ Cardinality(EventsNamed(events, "WriteFile")) = 1
    /\ descriptorData(r, ret.fds) \notin Range(out)

\* C26: a successful DescriptorSet writes the serialized descriptor sets to
\* exactly one destination: the output when neither an output path nor tmp
\* is given, the file at the output path, or a new temporary file, whose
\* name is then printed, and printed in no other case; a file that was
\* opened is closed last on every return path, and the error of a failed
\* close is part of the error returned.
C26_OneDestinationAndFileClosed ==
    DescriptorSetDone
        => /\ (ret.err = "nil" /\ call.flags.outputPath = <<>> /\ ~call.flags.tmp)
                => /\ out = <<descriptorData(r, ret.fds)>>
                   /\ ~Called("Create") /\ ~Called("TempFile")
                   /\ ~Called("WriteFile")
           /\ (ret.err = "nil" /\ call.flags.outputPath # <<>>)
                => /\ WrittenToFileOnly("Create", call.flags.outputPath)
                   /\ ~Called("TempFile")
                   /\ out = <<>>
           /\ (ret.err = "nil" /\ call.flags.tmp)
                => /\ WrittenToFileOnly("TempFile", TmpFile)
                   /\ ~Called("Create")
                   /\ out = <<TmpFile>>
           /\ TmpFile \in Range(out) => call.flags.tmp
           /\ FileOpened
                => /\ events[Len(events)] = Event("Close", FileName)
                   /\ Cardinality(EventsNamed(events, "Close")) = 1
                   /\ ~call.env.io.closeOK
                        => ret.err \in {"close", "file-write; close", "write; close"}
                   /\ call.env.io.closeOK
                        => ret.err \notin {"close", "file-write; close", "write; close"}
           /\ ~FileOpened => ~Called("Close")

\* a DescriptorSet wrote a temporary file and printed its name
C26_Witness ==
    /\ DescriptorSetDone
    /\ call.flags.tmp
    /\ ret.err = "nil"
    /\ FileOpened
    /\ out = <<TmpFile>>
    /\ Len(ret.fds) > 1

\* a Files command has returned without error
FilesDone == Done /\ call.op = "Files" /\ ret.err = "nil"

\* the directory the files command was asked about
FilesDirPath ==
    AbsClean(events[CHOOSE i \in 1..Len(events) : events[i].e = "GetForDir"].p)

\* the display paths of the resolved files that lie in the target
\* directory or below it
FilesUnderTarget ==
    UNION {call.dirPathToFiles[d] :
             d \in {x \in DOMAIN call.dirPathToFiles : Under(x, FilesDirPath)}}

\* C24: the files command prints, sorted and one per line, the display
\* paths of exactly the resolved files that lie under the target directory;
\* the files of a directory that is not under the target directory are
\* skipped.
C24_FilesUnderTargetSorted ==
    FilesDone => out = SortStrings(FilesUnderTarget)

\* the files command printed the files of s and s/g and skipped the file of
\* the work directory
C24_SkipsOtherDirectories ==
    /\ FilesDone
    /\ FilesDirPath = <<"/", "w", "/", "s">>
    /\ DOMAIN call.dirPathToFiles
          = {<<"/", "w">>, <<"/", "w", "/", "s">>, <<"/", "w", "/", "s", "/", "g">>}
    /\ out = << <<"s", "/", "a">>, <<"s", "/", "b">>, <<"s", "/", "g", "/", "a">> >>

\* the configuration files an Init may write or find
ConfigPaths == {Join(Abs(d), DefaultConfigFilename) : d \in {PathDot, PathS, PathSG}}

\* the configuration file of an Init with the arguments args
ConfigPathOf(args) ==
    Join(Abs(IF Len(args) = 1 THEN args[1] ELSE PathDot), DefaultConfigFilename)

\* the step from fsx to fsy creates nothing and changes nothing
NothingCreated(fsx, fsy) ==
    \A p \in DOMAIN fsx \cup DOMAIN fsy : KindAt(fsy, p) = KindAt(fsx, p)

\* an Init with at most one argument found its configuration file there
InitFoundFile(fsx, c) ==
    /\ Len(c.args) <= 1
    /\ KindAt(fsx, ConfigPathOf(c.args)) # "none"

\* what one Init does, from the tree fsx to the tree fsy
InitKeepsExistingFile(fsx, fsy, c, err, evs) ==
    /\ Len(c.args) > 1 => (err = "one-arg" /\ evs = <<>> /\ NothingCreated(fsx, fsy))
    /\ InitFoundFile(fsx, c)
         => /\ err = "exists"
            /\ ExitCodeOf(err) = 1
            /\ evs[Len(evs)] = Event("Stat", Join(IF Len(c.args) = 1 THEN c.args[1] ELSE Cwd,
                                                    DefaultConfigFilename))
            /\ NothingCreated(fsx, fsy)
    /\ err = "nil"
         => /\ KindAt(fsx, ConfigPathOf(c.args)) = "none"
            /\ KindAt(fsy, ConfigPathOf(c.args)) = ConfigData(c.uncomment, c.document)
    /\ \A p \in ConfigPaths : KindAt(fsx, p) # "none" => KindAt(fsy, p) = KindAt(fsx, p)

\* C23: config init never overwrites a configuration file: when the file
\* is there Init returns the error that it already exists (exit code 1) and
\* leaves the tree as it was, so that a second init of a directory fails
\* after the first succeeded; Init with more than one argument fails
\* without creating anything.
C23_InitNeverOverwrites ==
    [][(phase = "ready" /\ phase' = "done" /\ call'.op = "Init")
          => InitKeepsExistingFile(fs, fs', call', ret'.err, events')]_vars

\* a second init of the directory s/g, with other flags, has failed and the
\* file the first init wrote is there
C23_Witness ==
    /\ Done
    /\ call.op = "Init"
    /\ call.args = <<PathSG>>
    /\ call.uncomment
    /\ call.ienv.generateOK /\ call.ienv.writeFileOK
    /\ ret.err = "exists"
    /\ KindAt(fs, ConfigPathOf(call.args)) = "config-document"

\* a DescriptorSet has emitted a descriptor set
Emitted == Done /\ call.op = "DescriptorSet" /\ ret.err = "nil"

\* the names of the files of the emitted descriptor set
EmittedNames == {ret.fds[i].name : i \in 1..Len(ret.fds)}

\* the directory the descriptor set was asked for
EmittedDirPath ==
    AbsClean(events[CHOOSE i \in 1..Len(events) : events[i].e = "GetForDir"].p)

\* the names of the files of the tree in that directory or below it
TargetNames == {s.fd.name : s \in {x \in SourceTree : InDir(x.dir, EmittedDirPath)}}

\* the file named a imports the file named b
ImportsFile(a, b) ==
    \E fd \in {s.fd : s \in SourceTree} \cup WellKnownFiles :
        fd.name = a /\ b \in Range(fd.dependency)

\* the chains of imports of at most four files
ImportChains ==
    {c \in UNION {[1..k -> {<<"f">>, <<"a">>, <<"b">>, <<"d">>, <<"t">>, <<"x">>}]
                     : k \in 1..4} :
        \A i \in 1..(Len(c) - 1) : ImportsFile(c[i], c[i + 1])}

\* the names of the files of the target and of every file a chain of
\* imports leads to from one of them
TargetNamesWithImports == {c[Len(c)] : c \in {x \in ImportChains : x[1] \in TargetNames}}

====
